---------------------------- MODULE Spec2Model ----------------------------
(***************************************************************************)
(* A model of libopenssh's ssh-proxy event loop (ssh/ssh-proxy.c) and of   *)
(* the server side of the ECDH key exchange (ssh/kexecdhs.c).              *)
(*                                                                         *)
(* The proxy is a single-threaded libevent program: every callback runs    *)
(* to completion, so each callback is one action.  Events are one-shot     *)
(* (no EV_PERSIST): an event that fires is no longer pending unless the    *)
(* callback adds it again.                                                 *)
(***************************************************************************)
EXTENDS Integers, Sequences, FiniteSets, TLC

(***************************************************************************)
(* Bounds of the model.                                                    *)
(***************************************************************************)
MaxSessions == 2      \* connections the listener accepts in one run
MaxPkts == 2          \* frames the two peers of all sessions send in one run
MaxFollowed == 1      \* sessions served in the runs that follow one session

(***************************************************************************)
(* Program constants.                                                      *)
(***************************************************************************)
BUFSZ == 16384        \* ssh-proxy.c: #define BUFSZ 16*1024

Min(a, b) == IF a < b THEN a ELSE b

Sessions == 1..MaxSessions
Followed == 1..Min(MaxFollowed, MaxSessions)
Sides == {"client", "server"}

(***************************************************************************)
(* Wire format of the modelled transport: a frame is two bytes, the        *)
(* message type and one byte of payload.                                   *)
(***************************************************************************)
FrameLen == 2
MSG_IGNORE == 2       \* forwarded to the application (the proxy)
MSG_KEXINIT == 20     \* KEX phase: dispatched inside the engine, answered
MSG_NEWKEYS == 21     \* KEX phase: dispatched inside the engine, no answer
MSG_CORRUPT == 255    \* a frame the engine cannot decode
ERR_MAC_INVALID == -30  \* the engine's error result for such a frame

PeerFrames ==
  { <<MSG_IGNORE, 1>>, <<MSG_IGNORE, 2>>, <<MSG_KEXINIT, 0>>,
    <<MSG_NEWKEYS, 0>>, <<MSG_CORRUPT, 0>> }

Drop(q, n) == SubSeq(q, n + 1, Len(q))
Take(q, n) == SubSeq(q, 1, n)
Count(q, x) == Len(SelectSeq(q, LAMBDA y : y = x))
Has(q, x) == Count(q, x) > 0

VARIABLES
  running,    \* the process is alive (fatal() ends it)
  lev,        \* the listener's read event is pending
  sess,       \* the session records, one per accepted connection
  sessions,   \* TAILQ_HEAD(, session) sessions
  rx,         \* bytes each socket's peer has sent and the proxy has not read
  sent,       \* frames sent by peers so far
  kex,        \* struct kex of one server-side connection (kexecdhs.c)
  ks,         \* one run of the ssh-keysign process (ssh-keysign.c)
  sshadd      \* one run of the ssh-add process (ssh-add.c)

vars == <<running, lev, sess, sessions, rx, sent, kex, ks, sshadd>>

(***************************************************************************)
(* struct side / struct session.  The fields below the line are history    *)
(* kept for stating properties; the program does not read them.            *)
(***************************************************************************)
NullSsh == [alive |-> FALSE, in |-> <<>>, out |-> <<>>]
NewSsh == [alive |-> TRUE, in |-> <<>>, out |-> <<>>]
BothSides(v) == [sd \in Sides |-> v]

NoSession ==
  [ alloc |-> "none",            \* none | live | freed
    connected |-> 0,
    fd |-> BothSides(-1),
    ssh |-> BothSides(NullSsh),
    evIn |-> BothSides(FALSE),   \* side.input is pending
    evOut |-> BothSides(FALSE),  \* side.output is pending
    next |-> FALSE,              \* linked into the sessions list
    \* ------------------------------------------------------------------
    relLog |-> <<>>,             \* release steps in the order performed
    putlog |-> BothSides(<<>>),  \* ssh_packet_put calls made on the engine
    inlog |-> BothSides(<<>>),   \* bytes appended to the engine's input
    outlog |-> BothSides(<<>>),  \* bytes the engine queued for output
    wire |-> BothSides(<<>>) ]   \* bytes written to the socket

FdOf(s, sd) == 2 * s + (IF sd = "client" THEN 1 ELSE 2)
OtherSide(sd) == IF sd = "client" THEN "server" ELSE "client"
Rel(op, sd) == [op |-> op, side |-> sd]

(***************************************************************************)
(* Statements in sequence: Then(S, F) is the record F leaves when run on   *)
(* the record S the statements before it left.                             *)
(***************************************************************************)
Then(S, F(_)) == CHOOSE T \in { F(V) : V \in {S} } : TRUE

(***************************************************************************)
(* struct kex, as far as the ECDH server handler reads and writes it.      *)
(* The fields below the line are history kept for stating properties.      *)
(***************************************************************************)
NoId == <<>>          \* session_id == NULL

NoKex ==
  [ name |-> "",
    load_host_public_key |-> "NULL",    \* NULL | nokey | key
    load_host_private_key |-> "NULL",
    session_id |-> NoId,
    session_id_len |-> 0,
    dispatch |-> FALSE,                 \* KEX_ECDH_INIT is dispatched to the handler
    state |-> "idle",                   \* idle | await_init | done | aborted | exited
    \* ------------------------------------------------------------------
    exchanges |-> 0,                    \* key exchanges started
    hashes |-> <<>>,                    \* every H computed, in order
    r |-> "none",                       \* what the last run of the handler returned
    trace |-> <<>>,                     \* the calls the last run made, in order
    leaked |-> {},                      \* what the last run allocated and kept
    msgs |-> <<>>,                      \* the packets the handler sent, in order
    inits |-> 0 ]                       \* runs of the handler in this key exchange

(***************************************************************************)
(* main() of ssh-keysign before its first statement.                       *)
(***************************************************************************)
NUM_KEYTYPES == 3
KeyIdx == 1..NUM_KEYTYPES
NoKey == [type |-> "KEY_UNSPEC", id |-> 0]
NoRequest == <<>>

NoKeysign ==
  [ pc |-> "start",                     \* start | opened | dropped | enabled | loaded
                                        \* | accepted | exit0 | exit1 | fatal
    privileged |-> TRUE,                \* the process still has the file owner's uid
    key_fd |-> [i \in KeyIdx |-> -1],
    keys |-> [i \in KeyIdx |-> NoKey],   \* NoKey is NULL
    key |-> NoKey,                      \* what valid_request returned through ret
    host |-> "unset",                   \* what get_local_name returned: NULL or a name
    enable_ssh_keysign |-> -1,          \* options.enable_ssh_keysign, -1 before it is read
    msg |-> NoRequest,                  \* the message read from stdin
    stdout |-> <<>>,                    \* the messages written to stdout
    fatal |-> "",                       \* the text fatal() was called with
    \* ------------------------------------------------------------------
    trace |-> <<>> ]                    \* the calls made so far, in order

(***************************************************************************)
(* ssh-add before main has looked at its arguments.  A string is the       *)
(* sequence of its bytes; pass is the one cached passphrase, and pass_set  *)
(* tells whether the pointer is not NULL.  freed lists the blocks given to *)
(* free, each with the bytes it held at that moment; reqs lists the        *)
(* requests made of the agent, each with the agent's answer.               *)
(***************************************************************************)
NoSshAdd ==
  [ pc |-> "start",
    pass_set |-> FALSE,
    pass |-> <<>>,
    freed |-> <<>>,
    reqs |-> <<>>,
    last |-> "none",                    \* the function main called last
    r |-> 0,                            \* what that function returned
    ret |-> 0,                          \* main's exit status so far
    files |-> 0 ]

Init ==
  /\ ks = NoKeysign
  /\ sshadd = NoSshAdd
  /\ running = TRUE
  /\ lev = TRUE
  /\ sess = [s \in Sessions |-> NoSession]
  /\ sessions = <<>>
  /\ rx = [s \in Sessions |-> BothSides(<<>>)]
  /\ sent = 0
  /\ kex = NoKex

(***************************************************************************)
(* fatal(): the process exits, and with it go every record, engine, event  *)
(* and socket.                                                             *)
(***************************************************************************)
fatal ==
  /\ running' = FALSE
  /\ lev' = FALSE
  /\ sess' = [s \in Sessions |-> NoSession]
  /\ sessions' = <<>>
  /\ rx' = [s \in Sessions |-> BothSides(<<>>)]
  /\ UNCHANGED <<sent, kex, ks, sshadd>>

(***************************************************************************)
(* The transport engine (ssh_api).                                         *)
(***************************************************************************)
ssh_input_append(e, bytes) == [e EXCEPT !.in = @ \o bytes]

RECURSIVE ssh_packet_get(_)
ssh_packet_get(e) ==
  IF Len(e.in) < FrameLen
  THEN [type |-> 0, payload |-> 0, ssh |-> e]
  ELSE LET hdr == e.in[1]
           body == e.in[2]
           rest == [e EXCEPT !.in = Drop(@, FrameLen)]
       IN  IF hdr = MSG_KEXINIT
           THEN ssh_packet_get([rest EXCEPT !.out = @ \o <<MSG_KEXINIT, 0>>])
           ELSE IF hdr = MSG_NEWKEYS
           THEN ssh_packet_get(rest)
           ELSE IF hdr = MSG_CORRUPT
           THEN [type |-> ERR_MAC_INVALID, payload |-> 0, ssh |-> rest]
           ELSE [type |-> hdr, payload |-> body, ssh |-> rest]

ssh_packet_put(e, type, payload) == [e EXCEPT !.out = @ \o <<type, payload>>]

ssh_output_ptr(e) == e.out

ssh_output_consume(e, n) ==
  IF n <= Len(e.out) THEN [e EXCEPT !.out = Drop(@, n)] ELSE e

(***************************************************************************)
(* The byte and packet histories of a record end with the record.          *)
(***************************************************************************)
Forget(S) ==
  [S EXCEPT !.putlog = BothSides(<<>>), !.inlog = BothSides(<<>>),
            !.outlog = BothSides(<<>>), !.wire = BothSides(<<>>)]

(***************************************************************************)
(* session_close without the release of the server side's engine.          *)
(***************************************************************************)
session_close_keeps_server_engine(S) ==
  LET closes ==
        (IF S.fd["client"] # -1 THEN <<Rel("close", "client")>> ELSE <<>>)
        \o (IF S.fd["server"] # -1 THEN <<Rel("close", "server")>> ELSE <<>>)
      dels == <<Rel("event_del_input", "client"), Rel("event_del_output", "client"),
                Rel("event_del_input", "server"), Rel("event_del_output", "server")>>
      frees == IF S.ssh["client"].alive THEN <<Rel("ssh_free", "client")>> ELSE <<>>
  IN  IF S.connected = 1
      THEN [Forget(S) EXCEPT
                     !.evIn = BothSides(FALSE),
                     !.evOut = BothSides(FALSE),
                     !.ssh["client"] = NullSsh,
                     !.next = FALSE,
                     !.alloc = "freed",
                     !.relLog = @ \o closes \o dels \o frees
                                  \o <<Rel("unlink", "session"), Rel("xfree", "session")>>]
      ELSE [Forget(S) EXCEPT
                     !.alloc = "freed",
                     !.relLog = @ \o closes \o <<Rel("xfree", "session")>>]

\* session_close that closes the sockets of a connected session only.
session_close_leaks_unconnected(S) ==
  LET closes ==
        (IF S.fd["client"] # -1 THEN <<Rel("close", "client")>> ELSE <<>>)
        \o (IF S.fd["server"] # -1 THEN <<Rel("close", "server")>> ELSE <<>>)
      dels == <<Rel("event_del_input", "client"), Rel("event_del_output", "client"),
                Rel("event_del_input", "server"), Rel("event_del_output", "server")>>
      frees ==
        (IF S.ssh["client"].alive THEN <<Rel("ssh_free", "client")>> ELSE <<>>)
        \o (IF S.ssh["server"].alive THEN <<Rel("ssh_free", "server")>> ELSE <<>>)
  IN  IF S.connected = 1
      THEN [Forget(S) EXCEPT
                     !.evIn = BothSides(FALSE),
                     !.evOut = BothSides(FALSE),
                     !.ssh = BothSides(NullSsh),
                     !.next = FALSE,
                     !.alloc = "freed",
                     !.relLog = @ \o closes \o dels \o frees
                                  \o <<Rel("unlink", "session"), Rel("xfree", "session")>>]
      ELSE [Forget(S) EXCEPT
                     !.alloc = "freed",
                     !.relLog = @ \o <<Rel("xfree", "session")>>]

(***************************************************************************)
(* session_close(s), on the record S.                                      *)
(***************************************************************************)
session_close(S) ==
  LET closes ==
        (IF S.fd["client"] # -1 THEN <<Rel("close", "client")>> ELSE <<>>)
        \o (IF S.fd["server"] # -1 THEN <<Rel("close", "server")>> ELSE <<>>)
      torn == S.connected = 1
      dels == <<Rel("event_del_input", "client"), Rel("event_del_output", "client"),
                Rel("event_del_input", "server"), Rel("event_del_output", "server")>>
      frees ==
        (IF S.ssh["client"].alive THEN <<Rel("ssh_free", "client")>> ELSE <<>>)
        \o (IF S.ssh["server"].alive THEN <<Rel("ssh_free", "server")>> ELSE <<>>)
  IN  IF torn
      THEN [Forget(S) EXCEPT
                     !.evIn = BothSides(FALSE),
                     !.evOut = BothSides(FALSE),
                     !.ssh = BothSides(NullSsh),
                     !.next = FALSE,
                     !.alloc = "freed",
                     !.relLog = @ \o closes \o dels \o frees
                                  \o <<Rel("unlink", "session"), Rel("xfree", "session")>>]
      ELSE [Forget(S) EXCEPT
                     !.alloc = "freed",
                     !.relLog = @ \o closes \o <<Rel("xfree", "session")>>]

(***************************************************************************)
(* The sessions list after a callback left session s as S.                 *)
(***************************************************************************)
InList(q, s) == \E i \in 1..Len(q) : q[i] = s
TailqUpdate(q, s, S) ==
  IF S.next /\ ~InList(q, s) THEN Append(q, s)
  ELSE IF ~S.next /\ InList(q, s) THEN SelectSeq(q, LAMBDA t : t # s)
  ELSE q

\* What an engine operation added to the engine's output.
Grown(old, new) == Drop(new.out, Len(old.out))

\* ssh_packet_fwd's event_add without the call.
ArmNever(S, sd) == S

\* The event is added only when more than one packet is queued.
ArmIfSeveral(S, sd) ==
  IF Len(ssh_output_ptr(S.ssh[sd])) > FrameLen THEN [S EXCEPT !.evOut[sd] = TRUE] ELSE S

\* ssh_output_ptr(side->ssh, &len); if (len) event_add(&side->output, NULL);
ArmIfOutput(S, sd) ==
  IF Len(ssh_output_ptr(S.ssh[sd])) # 0 THEN [S EXCEPT !.evOut[sd] = TRUE] ELSE S

\* ssh_packet_fwd with ssh_packet_put called on from->ssh.
ssh_packet_fwd_put_back(S, from, to) ==
  IF ~S.ssh[from].alive \/ ~S.ssh[to].alive
  THEN S
  ELSE LET g == ssh_packet_get(S.ssh[from])
           S1 == [S EXCEPT !.ssh[from] = g.ssh,
                           !.outlog[from] = @ \o Grown(S.ssh[from], g.ssh)]
           put == ssh_packet_put(S1.ssh[from], g.type, g.payload)
           S2 == IF g.type # 0
                 THEN [S1 EXCEPT !.ssh[from] = put,
                                 !.putlog[from] = Append(@, <<g.type, g.payload>>),
                                 !.outlog[from] = @ \o Grown(S1.ssh[from], put)]
                 ELSE S1
       IN  ArmIfOutput(ArmIfOutput(S2, from), to)

(***************************************************************************)
(* ssh_packet_fwd(from, to): at most one packet of from is handed to to;   *)
(* then each side's output event is added if its output is not empty.      *)
(***************************************************************************)
ssh_packet_fwd(S, from, to) ==
  IF ~S.ssh[from].alive \/ ~S.ssh[to].alive
  THEN S
  ELSE LET g == ssh_packet_get(S.ssh[from])
           S1 == [S EXCEPT !.ssh[from] = g.ssh,
                           !.outlog[from] = @ \o Grown(S.ssh[from], g.ssh)]
           put == ssh_packet_put(S1.ssh[to], g.type, g.payload)
           S2 == IF g.type # 0
                 THEN [S1 EXCEPT !.ssh[to] = put,
                                 !.putlog[to] = Append(@, <<g.type, g.payload>>),
                                 !.outlog[to] = @ \o Grown(S1.ssh[to], put)]
                 ELSE S1
       IN  ArmIfOutput(ArmIfOutput(S2, from), to)

(***************************************************************************)
(* What read(2) may return on a socket whose peer has avail bytes in       *)
(* flight, and what write(2) may return for a window of olen bytes over a  *)
(* buffer of have bytes.                                                   *)
(***************************************************************************)
IoErrors ==
  { [len |-> -1, errno |-> "EAGAIN"], [len |-> -1, errno |-> "ECONNRESET"],
    [len |-> 0, errno |-> "none"] }

ReadResults(avail) ==
  IoErrors \cup { [len |-> n, errno |-> "none"] : n \in 1..Min(Len(avail), BUFSZ) }

\* No failure is taken for one to retry after.
Retry_never(res) == FALSE

\* The retry test without the look at errno.
Retry_any_errno(res) == res.len < 0

Retry(res) == res.len < 0 /\ res.errno \in {"EINTR", "EAGAIN"}

\* The read event left as the delivery left it: not pending.
event_add_input_lost(S, r) == S

\* event_add(&r->input, NULL)
event_add_input(S, r) == [S EXCEPT !.evIn[r] = TRUE]

(***************************************************************************)
(* input_cb(fd, type, s) for the read event of side sd, on the record S:   *)
(* res is what read(2) returned and avail the bytes it could take from.    *)
(***************************************************************************)
input_cb(S, sd, res, avail) ==
  LET fd == S.fd[sd]
      r == IF fd = S.fd["client"] THEN "client" ELSE "server"
      w == OtherSide(r)
      fired == [S EXCEPT !.evIn[sd] = FALSE]
      buf == Take(avail, res.len)
  IN  IF Retry(res)
      THEN Then(Then(event_add_input(fired, r),
                     LAMBDA T : ssh_packet_fwd(T, r, w)),
                LAMBDA T : ssh_packet_fwd(T, w, r))
      ELSE IF res.len <= 0
      THEN session_close(fired)
      ELSE Then(Then([event_add_input(fired, r) EXCEPT
                                   !.ssh[r] = ssh_input_append(@, buf),
                                   !.inlog[r] = @ \o buf],
                     LAMBDA T : ssh_packet_fwd(T, r, w)),
                LAMBDA T : ssh_packet_fwd(T, w, r))

(***************************************************************************)
(* output_cb declares ssize_t olen without a value and has                 *)
(* ssh_output_ptr store the length through &olen cast to a pointer to      *)
(* u_int: where ssize_t is wider than u_int only half of olen is written,  *)
(* and the other half is whatever the stack held.  An olen is kept as its  *)
(* two halves; hi is 0 where the types have the same width.                *)
(***************************************************************************)
UninitHigh == {-1, 0, 1}   \* the unwritten half: negative, zero, positive
OverRead == 1              \* bytes past the buffer's end the writes to one
                           \* socket take in a run
HeapByte == -1             \* such a byte, of unknown value

SsizePos(o) == o.hi > 0 \/ (o.hi = 0 /\ o.lo > 0)

HeapBytes(q) == Len(SelectSeq(q, LAMBDA b : b = HeapByte))

WriteResults(o, have, past) ==
  IoErrors \cup { [len |-> n, errno |-> "none"] :
                  n \in 1..(IF o.hi > 0 THEN have + past ELSE o.lo) }

NoWrite == [len |-> 0, errno |-> "nowrite"]

(***************************************************************************)
(* output_cb(fd, type, s) for the write event of side sd, on the record S: *)
(* hi is the unwritten half of olen and res what write(2) returned.        *)
(***************************************************************************)
Olen(S, sd, hi) == [hi |-> hi, lo |-> Len(ssh_output_ptr(S.ssh[sd]))]
Past(S, sd) == OverRead - HeapBytes(S.wire[sd])

output_cb(S, sd, hi, res) ==
  LET fd == S.fd[sd]
      w == IF fd = S.fd["client"] THEN "client" ELSE "server"
      r == OtherSide(w)
      fired == [S EXCEPT !.evOut[sd] = FALSE]
      obuf == ssh_output_ptr(S.ssh[w])
      olen == Olen(S, w, hi)
      window == obuf \o [i \in 1..Past(S, w) |-> HeapByte]
  IN  IF ~SsizePos(olen)
      THEN Then(Then(fired, LAMBDA T : ssh_packet_fwd(T, r, w)),
                LAMBDA T : ssh_packet_fwd(T, w, r))
      ELSE IF Retry(res)
      THEN Then(Then([fired EXCEPT !.evOut[w] = TRUE],
                     LAMBDA T : ssh_packet_fwd(T, r, w)),
                LAMBDA T : ssh_packet_fwd(T, w, r))
      ELSE IF res.len <= 0
      THEN session_close(fired)
      ELSE Then(Then([fired EXCEPT !.ssh[w] = ssh_output_consume(@, res.len),
                                   !.wire[w] = @ \o Take(window, res.len)],
                     LAMBDA T : ssh_packet_fwd(T, r, w)),
                LAMBDA T : ssh_packet_fwd(T, w, r))

(***************************************************************************)
(* accept_cb(fd, type, ev), taking the next unused session record.         *)
(***************************************************************************)
AcceptResults == {"ok", "accept_failed", "fcntl_failed", "do_connect_failed"}

accept_cb(s, res) ==
  LET S0 == [NoSession EXCEPT !.alloc = "live"]
      S1 == [S0 EXCEPT !.fd["client"] = FdOf(s, "client")]
      failed == [S1 EXCEPT !.alloc = "freed",
                           !.relLog = @ \o <<Rel("close", "client"), Rel("xfree", "session")>>]
      S2 == [S1 EXCEPT !.fd["server"] = FdOf(s, "server"),
                       !.evOut["server"] = TRUE]
  IN  /\ running /\ lev
      /\ sess[s].alloc = "none"
      /\ \A t \in Sessions : t < s => sess[t].alloc # "none"
      /\ res \in AcceptResults
      /\ IF res = "accept_failed"
         THEN fatal
         ELSE /\ lev' = TRUE
              /\ sess' = [sess EXCEPT ![s] = IF res = "ok" THEN S2 ELSE failed]
              /\ UNCHANGED <<running, sessions, rx, sent, kex, ks, sshadd>>

(***************************************************************************)
(* connect_cb(fd, type, s): the write event of the server side while the   *)
(* connect is in progress.                                                 *)
(***************************************************************************)
ConnectResults == {"ok", "soerr", "client_hostkey_failed", "server_hostkey_failed"}

connect_cb(s, res) ==
  LET S == sess[s]
      fired == [S EXCEPT !.evOut["server"] = FALSE]
      refused == session_close([fired EXCEPT !.fd["server"] = -1,
                                             !.relLog = Append(@, Rel("close", "server"))])
      inited == [fired EXCEPT !.ssh = BothSides(NewSsh)]
      up == [inited EXCEPT !.evIn = BothSides(TRUE),
                           !.connected = 1,
                           !.next = TRUE]
      S2 == IF res = "soerr" THEN refused ELSE up
  IN  /\ running
      /\ S.alloc = "live" /\ S.connected = 0 /\ S.evOut["server"]
      /\ res \in ConnectResults
      /\ IF res \in {"client_hostkey_failed", "server_hostkey_failed"}
         THEN fatal
         ELSE /\ sess' = [sess EXCEPT ![s] = S2]
              /\ sessions' = TailqUpdate(sessions, s, S2)
              /\ rx' = IF S2.alloc = "freed" THEN [rx EXCEPT ![s] = BothSides(<<>>)]
                       ELSE rx
              /\ UNCHANGED <<running, lev, sent, kex, ks, sshadd>>

(***************************************************************************)
(* The peers: the client may send once its connection is accepted, the     *)
(* backend once the connect is through.                                    *)
(***************************************************************************)
PeerSend(s, sd, f) ==
  /\ running
  /\ sent < MaxPkts
  /\ sess[s].alloc = "live"
  /\ sess[s].fd[sd] # -1
  /\ sd = "server" => sess[s].connected = 1
  /\ f \in PeerFrames
  /\ rx' = [rx EXCEPT ![s][sd] = @ \o f]
  /\ sent' = sent + 1
  /\ UNCHANGED <<running, lev, sess, sessions, kex, ks, sshadd>>

(***************************************************************************)
(* The event loop: a pending event whose descriptor is ready runs its      *)
(* callback.  Leave(s, S2) is the state after a callback left record s as  *)
(* S2; a record that was freed has its sockets closed.                     *)
(***************************************************************************)
Leave(s, S2) ==
  \E T \in {S2} :
    /\ sess' = [sess EXCEPT ![s] = T]
    /\ sessions' = TailqUpdate(sessions, s, T)

Connected(s) == sess[s].alloc = "live" /\ sess[s].connected = 1

InputEvent(s, sd, res) ==
  /\ running
  /\ Connected(s) /\ sess[s].evIn[sd]
  /\ res \in ReadResults(rx[s][sd])
  /\ Leave(s, input_cb(sess[s], sd, res, rx[s][sd]))
  /\ rx' = IF Retry(res) THEN rx
           ELSE IF res.len <= 0 THEN [rx EXCEPT ![s] = BothSides(<<>>)]
           ELSE [rx EXCEPT ![s][sd] = Drop(@, res.len)]
  /\ UNCHANGED <<running, lev, sent, kex, ks, sshadd>>

OutputEvent(s, sd, hi, res) ==
  /\ running
  /\ Connected(s) /\ sess[s].evOut[sd]
  /\ hi \in UninitHigh
  /\ res \in (IF SsizePos(Olen(sess[s], sd, hi))
              THEN WriteResults(Olen(sess[s], sd, hi), Len(sess[s].ssh[sd].out),
                                Past(sess[s], sd))
              ELSE {NoWrite})
  /\ Leave(s, output_cb(sess[s], sd, hi, res))
  /\ rx' = IF res # NoWrite /\ ~Retry(res) /\ res.len <= 0
           THEN [rx EXCEPT ![s] = BothSides(<<>>)] ELSE rx
  /\ UNCHANGED <<running, lev, sent, kex, ks, sshadd>>

WriteOutcomes(s, sd) ==
  IoErrors \cup {NoWrite} \cup
    { [len |-> n, errno |-> "none"] : n \in 1..(Len(sess[s].ssh[sd].out) + OverRead) }

(***************************************************************************)
(* Loop(SS): one turn of event_dispatch() over the sessions SS.            *)
(***************************************************************************)
Loop(SS) ==
  \/ \E s \in SS, res \in AcceptResults : accept_cb(s, res)
  \/ \E s \in SS, res \in ConnectResults : connect_cb(s, res)
  \/ \E s \in SS, sd \in Sides :
       \E res \in ReadResults(rx[s][sd]) : InputEvent(s, sd, res)
  \/ \E s \in SS, sd \in Sides, hi \in UninitHigh :
       \E res \in WriteOutcomes(s, sd) : OutputEvent(s, sd, hi, res)
  \/ \E s \in SS, sd \in Sides, f \in PeerFrames : PeerSend(s, sd, f)

Next == Loop(Sessions)

Spec == Init /\ [][Next]_vars

(***************************************************************************)
(* Fair event delivery for the sessions followed: a write event that       *)
(* stays pending is eventually run.  Nothing is assumed about the peers    *)
(* or about read events.                                                   *)
(***************************************************************************)
FairNext == Loop(Followed)

FairSpec ==
  /\ Init
  /\ [][FairNext]_vars
  /\ \A s \in Followed, sd \in Sides :
       WF_vars(\E hi \in UninitHigh, res \in WriteOutcomes(s, sd) :
                 OutputEvent(s, sd, hi, res))

(***************************************************************************)
(* A second session_close(s) on a record that session_close has already    *)
(* released, as the delivery of a second event of the same session would   *)
(* make.  The record is read through a dangling pointer: seen is what      *)
(* the read finds, the contents the first call left or a chunk that        *)
(* malloc has handed out again; xfree of the freed pointer returns or      *)
(* aborts the process.                                                     *)
(***************************************************************************)
MaxCloses == 2        \* session_close calls made on one record

FreedReads(S) == { S, [S EXCEPT !.connected = 0] }

FreeOutcomes == {"returns", "abort"}

session_close_again(s, seen, out) ==
  /\ running
  /\ sess[s].alloc = "freed"
  /\ Has(sess[s].relLog, Rel("unlink", "session"))
  /\ Count(sess[s].relLog, Rel("xfree", "session")) < MaxCloses
  /\ seen \in FreedReads(sess[s])
  /\ out \in FreeOutcomes
  /\ Leave(s, session_close(seen))
  /\ running' = (out = "returns")
  /\ UNCHANGED <<lev, rx, sent, kex, ks, sshadd>>

CloseTwiceNext ==
  \/ Loop(Followed)
  \/ \E s \in Followed, out \in FreeOutcomes :
       \E seen \in FreedReads(sess[s]) : session_close_again(s, seen, out)

CloseTwiceSpec == Init /\ [][CloseTwiceNext]_vars

(***************************************************************************)
(* The ECDH key exchange, server side (kexecdhs.c).                        *)
(*                                                                         *)
(* The curve is modelled by a cyclic group of prime order GroupOrder       *)
(* written additively: a point is a residue, the generator is 1, the       *)
(* identity is 0, and GroupOrder itself stands for an encoding that is     *)
(* not on the curve.  An exchange hash is the tuple of what was hashed.    *)
(***************************************************************************)
MaxKex == 2           \* key exchanges on the connection
MaxScalar == 2        \* ephemeral private scalars the server may draw
MaxPoint == 2         \* valid points a client may send

GroupOrder == 5
Generator == 1
ScalarMult(k, P) == (k * P) % GroupOrder
Scalars == 1..MaxScalar
ClientPoints == (0..MaxPoint) \cup {GroupOrder}

KexNames ==
  { "ecdh-sha2-nistp256", "ecdh-sha2-nistp384", "ecdh-sha2-nistp521",
    "diffie-hellman-group14-sha1" }

kex_ecdh_name_to_nid(name) ==
  CASE name = "ecdh-sha2-nistp256" -> 256
    [] name = "ecdh-sha2-nistp384" -> 384
    [] name = "ecdh-sha2-nistp521" -> 521
    [] OTHER -> -1

DigestLen(nid) == CASE nid = 256 -> 32 [] nid = 384 -> 48 [] OTHER -> 64

sshkey_ec_validate_public(Q) == IF Q \in 1..(GroupOrder - 1) THEN 0 ELSE -1

kex_ecdh_hash(name, Q_C, Q_S, K) == <<name, Q_C, Q_S, K>>

Loaders == {"NULL", "nokey", "key"}

FailPoints ==
  { "none", "EC_KEY_new_by_curve_name", "EC_KEY_generate_key", "EC_POINT_new",
    "sshpkt_get_ec", "sshpkt_get_end", "malloc_kbuf", "BN_new",
    "ECDH_compute_key", "BN_bin2bn", "sshkey_to_blob", "kex_ecdh_hash",
    "malloc_session_id", "sshkey_sign", "sshpkt_send" }

(***************************************************************************)
(* kexecdh_server(ssh), called when a key exchange that negotiated name    *)
(* starts; the host key loaders are set when the connection is set up.     *)
(* A key exchange starts on a new connection or after one that completed:  *)
(* a handler that failed has ended the connection.                         *)
(***************************************************************************)
KexMayStart == kex.state \in {"idle", "done"}

kexecdh_server(name, pub, priv) ==
  /\ KexMayStart
  /\ kex.exchanges < MaxKex
  /\ name \in KexNames /\ pub \in Loaders /\ priv \in Loaders
  /\ kex.exchanges > 0 =>
       pub = kex.load_host_public_key /\ priv = kex.load_host_private_key
  /\ kex' = [kex EXCEPT !.name = name,
                        !.load_host_public_key = pub,
                        !.load_host_private_key = priv,
                        !.dispatch = TRUE,
                        !.state = "await_init",
                        !.exchanges = @ + 1,
                        !.inits = 0]
  /\ UNCHANGED <<running, lev, sess, sessions, rx, sent, ks, sshadd>>

(***************************************************************************)
(* The out: epilogue of input_kex_ecdh_init: held is what the run          *)
(* allocated before it got there.                                          *)
(***************************************************************************)
Epilogue(held) ==
  (IF "server_host_key_blob" \in held THEN <<"free(server_host_key_blob)">> ELSE <<>>)
  \o (IF "server_key" \in held THEN <<"EC_KEY_free(server_key)">> ELSE <<>>)
  \o (IF "kbuf" \in held THEN <<"bzero(kbuf)", "free(kbuf)">> ELSE <<>>)
  \o (IF "shared_secret" \in held THEN <<"BN_clear_free(shared_secret)">> ELSE <<>>)
  \o (IF "signature" \in held THEN <<"free(signature)">> ELSE <<>>)

Released ==
  {"server_host_key_blob", "server_key", "kbuf", "shared_secret", "signature"}

out(K, r, trace, held) ==
  [K EXCEPT !.r = r,
            !.trace = trace \o Epilogue(held),
            !.leaked = held \ Released,
            !.state = IF r = "0" THEN "done" ELSE "aborted"]

\* The assignment without the test for an unset session_id.
save_session_id_always(K, hash, hashlen, ok) ==
  [K EXCEPT !.session_id_len = hashlen,
            !.session_id = IF ok THEN hash ELSE NoId]

(***************************************************************************)
(* save session id := H; ok says that malloc returned memory.              *)
(***************************************************************************)
save_session_id(K, hash, hashlen, ok) ==
  IF K.session_id = NoId
  THEN [K EXCEPT !.session_id_len = hashlen,
                 !.session_id = IF ok THEN hash ELSE NoId]
  ELSE K

\* The curve lookup made after the ephemeral key has been generated.
unsupported_curve_after_keygen(K, trace) ==
  out(K, "SSH_ERR_INVALID_ARGUMENT",
      trace \o <<"EC_KEY_new_by_curve_name", "EC_KEY_generate_key">>, {"server_key"})

(***************************************************************************)
(* The branch taken when kex_ecdh_name_to_nid returns -1:                  *)
(* r = SSH_ERR_INVALID_ARGUMENT, goto out, with nothing allocated.         *)
(***************************************************************************)
unsupported_curve(K, trace) == out(K, "SSH_ERR_INVALID_ARGUMENT", trace, {})

\* The keys are derived and the exchange finished although the reply was not sent.
reply_failed_derives(K, trace, held) ==
  out(K, "SSH_ERR_CONN_CLOSED", trace \o <<"kex_derive_keys", "kex_finish">>, held)

(***************************************************************************)
(* The branch taken when one of the sshpkt_ calls of the reply fails:      *)
(* goto out with its result, past kex_derive_keys and kex_finish.          *)
(***************************************************************************)
reply_failed(K, trace, held) == out(K, "SSH_ERR_CONN_CLOSED", trace, held)

\* A loader that was not provided taken for a key that is missing.
no_loader_as_mismatch(K, trace, held) == out(K, "SSH_ERR_KEY_TYPE_MISMATCH", trace, held)

(***************************************************************************)
(* The branch taken when kex->load_host_public_key or                      *)
(* kex->load_host_private_key is NULL: r = SSH_ERR_INVALID_ARGUMENT.       *)
(***************************************************************************)
no_loader(K, trace, held) == out(K, "SSH_ERR_INVALID_ARGUMENT", trace, held)

\* The rejection without the disconnect message.
invalid_client_public_silent(K, trace, held) ==
  out(K, "SSH_ERR_MESSAGE_INCOMPLETE", trace, held)

(***************************************************************************)
(* The branch taken when sshkey_ec_validate_public rejects the decoded     *)
(* point: sshpkt_disconnect, r = SSH_ERR_MESSAGE_INCOMPLETE, goto out.     *)
(***************************************************************************)
invalid_client_public(K, trace, held) ==
  out([K EXCEPT !.msgs = Append(@, [type |-> "DISCONNECT",
                  fields |-> <<"invalid client public key">>])],
      "SSH_ERR_MESSAGE_INCOMPLETE", trace \o <<"sshpkt_disconnect">>, held)

\* A missing host key answered with the disconnect of an invalid point.
no_host_key_disconnects(K, trace, held) == invalid_client_public(K, trace, held)

(***************************************************************************)
(* The branch taken when a loader returns NULL:                            *)
(* r = SSH_ERR_KEY_TYPE_MISMATCH, goto out.                                *)
(***************************************************************************)
no_host_key(K, trace, held) == out(K, "SSH_ERR_KEY_TYPE_MISMATCH", trace, held)

(***************************************************************************)
(* input_kex_ecdh_init(type, seq, ssh) on the struct kex K, for a packet   *)
(* that carries the point Q_C: d is the scalar EC_KEY_generate_key draws   *)
(* and fail the call that fails in this run, if any.                       *)
(***************************************************************************)
input_kex_ecdh_init_run(K, Q_C, d, fail) ==
  LET nid == kex_ecdh_name_to_nid(K.name)
      Q_S == ScalarMult(d, Generator)
      shared_secret == ScalarMult(d, Q_C)
      hash == kex_ecdh_hash(K.name, Q_C, Q_S, shared_secret)
      hashlen == DigestLen(nid)
      signature == <<"signature", hash>>
      t1 == <<"kex_ecdh_name_to_nid">>
      t2 == t1 \o <<"EC_KEY_new_by_curve_name">>
      t3 == t2 \o <<"EC_KEY_generate_key">>
      t4 == t3 \o <<"load_host_public_key">>
      t5 == t4 \o <<"load_host_private_key">>
      t6 == t5 \o <<"EC_POINT_new">>
      t7 == t6 \o <<"sshpkt_get_ec">>
      t8 == t7 \o <<"sshpkt_get_end">>
      t9 == t8 \o <<"sshkey_ec_validate_public">>
      t10 == t9 \o <<"malloc(klen)">>
      t11 == t10 \o <<"BN_new">>
      t12 == t11 \o <<"ECDH_compute_key">>
      t13 == t12 \o <<"BN_bin2bn">>
      t14 == t13 \o <<"sshkey_to_blob">>
      t15 == t14 \o <<"kex_ecdh_hash">>
      unset == K.session_id = NoId
      t16 == t15 \o (IF unset THEN <<"malloc(session_id_len)">> ELSE <<>>)
      t17 == t16 \o (IF unset THEN <<"memcpy(session_id)">> ELSE <<>>) \o <<"sshkey_sign">>
      t18 == t17 \o <<"sshpkt_start", "sshpkt_put_string(server_host_key_blob)",
                      "sshpkt_put_ec(public_key)", "sshpkt_put_string(signature)",
                      "sshpkt_send">>
      t19 == t18 \o <<"kex_derive_keys", "kex_finish">>
      h3 == {"server_key"}
      h6 == h3 \cup {"client_public"}
      h10 == h6 \cup {"kbuf"}
      h11 == h10 \cup {"shared_secret"}
      h14 == h11 \cup {"server_host_key_blob"}
      h17 == h14 \cup {"signature"}
      K15 == [K EXCEPT !.hashes = Append(@, [h |-> hash, len |-> hashlen])]
      K16 == save_session_id(K15, hash, hashlen, fail # "malloc_session_id")
      K18 == [K16 EXCEPT !.msgs = Append(@, [type |-> "KEX_ECDH_REPLY",
                 fields |-> <<"server_host_key_blob", Q_S, signature>>])]
      K19 == [K18 EXCEPT !.msgs = Append(@, [type |-> "NEWKEYS", fields |-> <<>>])]
  IN  IF nid = -1 THEN unsupported_curve(K, t1)
      ELSE IF fail = "EC_KEY_new_by_curve_name" THEN out(K, "SSH_ERR_ALLOC_FAIL", t2, {})
      ELSE IF fail = "EC_KEY_generate_key" THEN out(K, "SSH_ERR_LIBCRYPTO_ERROR", t3, h3)
      ELSE IF K.load_host_public_key = "NULL" \/ K.load_host_private_key = "NULL"
      THEN no_loader(K, t3, h3)
      ELSE IF K.load_host_public_key = "nokey" THEN no_host_key(K, t4, h3)
      ELSE IF K.load_host_private_key = "nokey" THEN no_host_key(K, t5, h3)
      ELSE IF fail = "EC_POINT_new" THEN out(K, "SSH_ERR_ALLOC_FAIL", t6, h3)
      ELSE IF fail = "sshpkt_get_ec" THEN out(K, "SSH_ERR_INVALID_FORMAT", t7, h6)
      ELSE IF fail = "sshpkt_get_end" THEN out(K, "SSH_ERR_UNEXPECTED_TRAILING_DATA", t8, h6)
      ELSE IF sshkey_ec_validate_public(Q_C) # 0
      THEN invalid_client_public(K, t9, h6)
      ELSE IF fail = "malloc_kbuf" THEN out(K, "SSH_ERR_ALLOC_FAIL", t10, h6)
      ELSE IF fail = "BN_new" THEN out(K, "SSH_ERR_ALLOC_FAIL", t11, h10)
      ELSE IF fail = "ECDH_compute_key" THEN out(K, "SSH_ERR_LIBCRYPTO_ERROR", t12, h11)
      ELSE IF fail = "BN_bin2bn" THEN out(K, "SSH_ERR_LIBCRYPTO_ERROR", t13, h11)
      ELSE IF fail = "sshkey_to_blob" THEN out(K, "SSH_ERR_ALLOC_FAIL", t14, h11)
      ELSE IF fail = "kex_ecdh_hash" THEN out(K, "SSH_ERR_ALLOC_FAIL", t15, h14)
      ELSE IF fail = "malloc_session_id" /\ unset
      THEN out(K16, "SSH_ERR_ALLOC_FAIL", t16, h14)
      ELSE IF fail = "sshkey_sign"
      THEN [K16 EXCEPT !.r = "fatal", !.trace = t17 \o <<"fatal">>,
                       !.leaked = h14, !.state = "exited"]
      ELSE IF fail = "sshpkt_send" THEN reply_failed(K16, t18, h17)
      ELSE out(K19, "0", t19, h17)

input_kex_ecdh_init(Q_C, d, fail) ==
  /\ kex.dispatch /\ kex.state = "await_init"
  /\ Q_C \in ClientPoints /\ d \in Scalars /\ fail \in FailPoints
  /\ kex' = input_kex_ecdh_init_run([kex EXCEPT !.inits = @ + 1], Q_C, d, fail)
  /\ UNCHANGED <<running, lev, sess, sessions, rx, sent, ks, sshadd>>

KexNext ==
  \/ \E name \in KexNames, pub \in Loaders, priv \in Loaders :
       kexecdh_server(name, pub, priv)
  \/ \E Q_C \in ClientPoints, d \in Scalars, fail \in FailPoints :
       input_kex_ecdh_init(Q_C, d, fail)

SpecKex == Init /\ [][KexNext]_vars

(***************************************************************************)
(* The same key exchange with a client that sends KEX_ECDH_INIT again      *)
(* after a run of the handler has returned an error: the dispatcher calls  *)
(* what kexecdh_server registered for the message type, and no path of     *)
(* the handler before kex_finish changes that registration.                *)
(***************************************************************************)
MaxInits == 2         \* KEX_ECDH_INIT messages a client sends in one exchange

Redelivered == kex.dispatch /\ kex.state = "aborted" /\ kex.inits < MaxInits

input_kex_ecdh_init_again(Q_C, d, fail) ==
  /\ Redelivered
  /\ Q_C \in ClientPoints /\ d \in Scalars /\ fail \in FailPoints
  /\ kex' = input_kex_ecdh_init_run([kex EXCEPT !.inits = @ + 1], Q_C, d, fail)
  /\ UNCHANGED <<running, lev, sess, sessions, rx, sent, ks, sshadd>>

KexResendNext ==
  \/ KexNext
  \/ \E Q_C \in ClientPoints, d \in Scalars, fail \in FailPoints :
       input_kex_ecdh_init_again(Q_C, d, fail)

SpecKexResend == Init /\ [][KexResendNext]_vars

(***************************************************************************)
(* ssh-keysign.  Strings whose characters the code looks at are sequences  *)
(* of characters; keys are a type and an identity.                         *)
(***************************************************************************)
SSH2_MSG_USERAUTH_REQUEST == 50
SSH2_MSG_USERAUTH_FAILURE == 51
STDIN_FILENO == 0
STDOUT_FILENO == 1
SIZE_MAX == 2147483647    \* stands for the largest size_t: no string is that long

KeyFile == [i \in KeyIdx |-> IF i = 1 THEN "KEY_DSA" ELSE IF i = 2 THEN "KEY_ECDSA" ELSE "KEY_RSA"]
HostKey(i) == [type |-> KeyFile[i], id |-> 1]

sshkey_type_from_name(pkalg) ==
  CASE pkalg = "ssh-rsa" -> "KEY_RSA"
    [] pkalg = "ssh-dss" -> "KEY_DSA"
    [] pkalg = "ecdsa-sha2-nistp256" -> "KEY_ECDSA"
    [] OTHER -> "KEY_UNSPEC"

BadBlob == [type |-> "KEY_UNSPEC", id |-> -1]
sshkey_from_blob(pkblob) ==
  IF pkblob = BadBlob THEN [r |-> -1, key |-> NoKey] ELSE [r |-> 0, key |-> pkblob]

sshkey_equal_public(a, b) == a # NoKey /\ b # NoKey /\ a.type = b.type /\ a.id = b.id

sshkey_sign(key, data) == [by |-> key, over |-> data]

tolower(c) == CASE c = "H" -> "h" [] c = "O" -> "o" [] c = "X" -> "x" [] OTHER -> c

strncasecmp(a, b, n) ==
  IF \A i \in 1..n : i <= Len(a) /\ i <= Len(b) /\ tolower(a[i]) = tolower(b[i])
  THEN 0 ELSE 1

(***************************************************************************)
(* The requests a client of the helper may write.  fields is how many of   *)
(* the nine fields of the signed data are there before the blob ends, and  *)
(* extra how many bytes follow the ninth.                                  *)
(***************************************************************************)
NFields == 9
LocalHost == <<"h", "o">>
ProcessUser == "alice"
GoodData ==
  [ sidlen |-> 20, type |-> SSH2_MSG_USERAUTH_REQUEST, service |-> "ssh-connection",
    method |-> "hostbased", pkalg |-> "ssh-rsa", pkblob |-> HostKey(3),
    chost |-> <<"h", "o", ".">>, luser |-> ProcessUser, fields |-> NFields, extra |-> 0 ]

SidLens == {20, 32, 48}
ClientHosts ==
  { <<"h", "o", ".">>, <<"H", "o", ".">>, <<"h", "o">>, <<>>, <<"h", "o", "x">>,
    <<"h", "x", ".">> }
PkBlobs == {HostKey(3), [type |-> "KEY_RSA", id |-> 2], HostKey(1), BadBlob}

WholeData ==
  [ sidlen : SidLens,
    type : {SSH2_MSG_USERAUTH_REQUEST, SSH2_MSG_USERAUTH_FAILURE},
    service : {"ssh-connection", "foo"},
    method : {"hostbased", "publickey"},
    pkalg : {"ssh-rsa", "ssh-dss", "foo"},
    pkblob : PkBlobs,
    chost : ClientHosts,
    luser : {ProcessUser, "bob"},
    fields : {NFields},
    extra : {0, 1} ]

CutData == { [GoodData EXCEPT !.fields = n] : n \in 0..(NFields - 1) }

SignedData == WholeData \cup CutData

\* The test without the look at the last character.
chost_fail_any_last(host, p) ==
  LET len == Len(p)
      len1 == IF len = 0 THEN SIZE_MAX ELSE len - 1
  IN  IF Len(host) # len1 THEN 1
      ELSE IF strncasecmp(host, p, len1) # 0 THEN 1
      ELSE 0

(***************************************************************************)
(* The client host name test of valid_request: len is the length of the    *)
(* string p, and len - 1 is computed in size_t.                            *)
(***************************************************************************)
chost_fail(host, p) ==
  LET len == Len(p)
      len1 == IF len = 0 THEN SIZE_MAX ELSE len - 1
  IN  IF Len(host) # len1 THEN 1
      ELSE IF p[len] # "." THEN 1
      ELSE IF strncasecmp(host, p, len1) # 0 THEN 1
      ELSE 0

\* The service name is not looked at.
service_fail_never(p) == 0

service_fail(p) == IF p # "ssh-connection" THEN 1 ELSE 0

(***************************************************************************)
(* valid_request(pw, host, ret, data, datalen): r is "0", "-1", or "fatal" *)
(* when an sshbuf_get fails; key is what is left in *ret, which main       *)
(* initialised to NULL.                                                    *)
(***************************************************************************)
valid_request(pw_name, host, data) ==
  LET pktype == sshkey_type_from_name(data.pkalg)
      blob == sshkey_from_blob(data.pkblob)
      key == IF pktype # "KEY_UNSPEC" /\ blob.r = 0 THEN blob.key ELSE NoKey
      fail ==
          (IF data.sidlen # 20 /\ data.sidlen # 32 THEN 1 ELSE 0)
        + (IF data.type # SSH2_MSG_USERAUTH_REQUEST THEN 1 ELSE 0)
        + service_fail(data.service)
        + (IF data.method # "hostbased" THEN 1 ELSE 0)
        + (IF pktype = "KEY_UNSPEC" THEN 1
           ELSE IF blob.r # 0 THEN 1
           ELSE IF blob.key.type # pktype THEN 1 ELSE 0)
        + chost_fail(host, data.chost)
        + (IF pw_name # data.luser THEN 1 ELSE 0)
        + (IF data.extra # 0 THEN 1 ELSE 0)
  IN  IF data.fields < NFields
      THEN [r |-> "fatal", key |-> NoKey, fail |-> 0]
      ELSE [r |-> IF fail # 0 THEN "-1" ELSE "0",
            key |-> IF fail # 0 /\ key # NoKey THEN NoKey ELSE key,
            fail |-> fail]

(***************************************************************************)
(* main() of ssh-keysign, one action per stretch of it between two points  *)
(* where the process can be observed from outside.                         *)
(***************************************************************************)
Call(op) == [op |-> op, privileged |-> ks.privileged]
ks_fatal(K, text) == [K EXCEPT !.pc = "fatal", !.fatal = text]
KeysignOnly == UNCHANGED <<running, lev, sess, sessions, rx, sent, kex, sshadd>>

\* open /dev/null, then the three host key files
ks_open(devnull, openable) ==
  /\ ks.pc = "start"
  /\ devnull \in BOOLEAN /\ openable \in [KeyIdx -> BOOLEAN]
  /\ ks' = IF ~devnull THEN [ks EXCEPT !.pc = "exit1"]
           ELSE [ks EXCEPT !.pc = "opened",
                           !.key_fd = [i \in KeyIdx |-> IF openable[i] THEN 2 + i ELSE -1],
                           !.trace = @ \o [i \in KeyIdx |-> Call("open(host key file)")]]
  /\ KeysignOnly

\* The process keeps its uid.
permanently_set_uid_noop(K) == K

permanently_set_uid(K) == [K EXCEPT !.privileged = FALSE]

\* getuid, getpwuid, pwcopy, permanently_set_uid
ks_drop(pw) ==
  /\ ks.pc = "opened"
  /\ pw \in {"NULL", ProcessUser}
  /\ ks' = IF pw = "NULL" THEN ks_fatal(ks, "getpwuid failed")
           ELSE [permanently_set_uid(ks) EXCEPT
                   !.pc = "dropped", !.trace = Append(@, Call("permanently_set_uid"))]
  /\ KeysignOnly

\* The configuration is read and not looked at.
keysign_enabled_always(enable) == TRUE

\* options.enable_ssh_keysign once the configuration file and the defaults are in
keysign_enabled(enable) == enable = 1

\* read the configuration, then look at the descriptors opened at the start
ks_config(enable) ==
  /\ ks.pc = "dropped"
  /\ enable \in {-1, 0, 1}
  /\ LET K == [ks EXCEPT !.trace = Append(@, Call("read_config_file")),
                         !.enable_ssh_keysign = enable]
     IN  ks' = IF ~keysign_enabled(enable) THEN ks_fatal(K, "ssh-keysign not enabled")
               ELSE IF \A i \in KeyIdx : K.key_fd[i] = -1
               THEN ks_fatal(K, "could not open any host key")
               ELSE [K EXCEPT !.pc = "enabled"]
  /\ KeysignOnly

\* parse the key files that could be opened: parses[i] says that file i holds a key
ks_load(parses) ==
  /\ ks.pc = "enabled"
  /\ parses \in [KeyIdx -> BOOLEAN]
  /\ \A i \in KeyIdx : ks.key_fd[i] = -1 => ~parses[i]
  /\ LET opened == SelectSeq([i \in KeyIdx |-> i], LAMBDA i : ks.key_fd[i] # -1)
         K == [ks EXCEPT
                 !.keys = [i \in KeyIdx |-> IF parses[i] THEN HostKey(i) ELSE NoKey],
                 !.trace = @ \o [j \in 1..Len(opened) |-> Call("sshkey_load_private_pem")]]
     IN  ks' = IF \A i \in KeyIdx : K.keys[i] = NoKey THEN ks_fatal(K, "no hostkey found")
               ELSE [K EXCEPT !.pc = "loaded"]
  /\ KeysignOnly

(***************************************************************************)
(* The messages a client may write to the helper's stdin, and what         *)
(* get_local_name finds for the descriptor the message names.              *)
(***************************************************************************)
Versions == {2, 1}

(***************************************************************************)
(* fd_index is a uint32 on the wire, kept as its top bit and its low 31    *)
(* bits; sshbuf_get_u32 stores it through a pointer to u_int into the int  *)
(* fd, where a set top bit makes the value negative.                       *)
(***************************************************************************)
U32(top, low) == [top |-> top, low |-> low]
as_int(u) == IF u.top = 1 THEN u.low - 2147483647 - 1 ELSE u.low
FdIndexes == {U32(1, 2147483647), U32(1, 3), U32(0, STDIN_FILENO), U32(0, STDOUT_FILENO), U32(0, 3)}

HeaderData == {GoodData, [GoodData EXCEPT !.service = "foo"], [GoodData EXCEPT !.fields = 0]}
Messages ==
  [rver : Versions, fd : FdIndexes, data : HeaderData]
    \cup [rver : {2}, fd : {U32(0, 3)}, data : SignedData]
LocalNames == {"NULL", "name"}

\* The descriptor test without the look at the sign.
bad_fd_unsigned(fd) == fd = STDIN_FILENO \/ fd = STDOUT_FILENO

bad_fd(fd) == fd < 0 \/ fd = STDIN_FILENO \/ fd = STDOUT_FILENO

\* read the one message, check its header, validate the signed data
ks_request(recv, msg, name) ==
  /\ ks.pc = "loaded"
  /\ recv \in {0, -1} /\ msg \in Messages /\ name \in LocalNames
  /\ name = "NULL" => msg.data \in HeaderData
  /\ LET K0 == [ks EXCEPT !.trace = Append(@, Call("ssh_msg_recv"))]
         K == [K0 EXCEPT !.msg = msg]
         fd == as_int(msg.fd)
         Kh == [K EXCEPT !.host = name, !.trace = Append(@, Call("get_local_name"))]
         Kv == [Kh EXCEPT !.trace = Append(@, Call("valid_request"))]
         v == valid_request(ProcessUser, LocalHost, msg.data)
     IN  ks' = IF recv < 0 THEN ks_fatal(K0, "ssh_msg_recv failed")
               ELSE IF msg.rver # 2 THEN ks_fatal(K, "bad version")
               ELSE IF bad_fd(fd) THEN ks_fatal(K, "bad fd")
               ELSE IF name = "NULL" THEN ks_fatal(Kh, "cannot get local name for fd")
               ELSE IF v.r = "fatal" THEN ks_fatal(Kv, "buffer error")
               ELSE IF v.r = "-1" THEN ks_fatal(Kv, "not a valid request")
               ELSE [Kv EXCEPT !.pc = "accepted", !.key = v.key]
  /\ KeysignOnly

\* The first loaded key, whatever key the request names.
matching_hostkey_first(K) == CHOOSE i \in KeyIdx : K.keys[i] # NoKey /\ \A j \in 1..(i - 1) : K.keys[j] = NoKey

\* the loop over keys[]: the first index whose key equals the request's, or 0
matching_hostkey(K) ==
  IF \E i \in KeyIdx : K.keys[i] # NoKey /\ sshkey_equal_public(K.key, K.keys[i])
  THEN CHOOSE i \in KeyIdx :
         /\ K.keys[i] # NoKey /\ sshkey_equal_public(K.key, K.keys[i])
         /\ \A j \in 1..(i - 1) : ~(K.keys[j] # NoKey /\ sshkey_equal_public(K.key, K.keys[j]))
  ELSE 0

\* find the host key, sign the signed data, write the one response
ks_sign(sign, send) ==
  /\ ks.pc = "accepted"
  /\ sign \in {0, -1} /\ send \in {0, -1}
  /\ LET i == matching_hostkey(ks)
         K == [ks EXCEPT !.trace = Append(@, Call("sshkey_sign"))]
         version == 2
     IN  ks' = IF i = 0 THEN ks_fatal(ks, "no matching hostkey found")
               ELSE IF sign # 0 THEN ks_fatal(K, "sshkey_sign failed")
               ELSE IF send = -1
               THEN ks_fatal([K EXCEPT !.trace = Append(@, Call("ssh_msg_send"))],
                             "ssh_msg_send failed")
               ELSE [K EXCEPT !.pc = "exit0",
                              !.trace = Append(@, Call("ssh_msg_send")),
                              !.stdout = Append(@, [version |-> version,
                                   signature |-> sshkey_sign(K.keys[i], K.msg.data)])]
  /\ KeysignOnly

\* main is at one place at a time: the inputs of a stretch are drawn there
At(pc) == ks.pc = pc

KeysignNext ==
  \/ At("start") /\ \E devnull \in BOOLEAN, openable \in [KeyIdx -> BOOLEAN] :
                      ks_open(devnull, openable)
  \/ At("opened") /\ \E pw \in {"NULL", ProcessUser} : ks_drop(pw)
  \/ At("dropped") /\ \E enable \in {-1, 0, 1} : ks_config(enable)
  \/ At("enabled") /\ \E parses \in [KeyIdx -> BOOLEAN] : ks_load(parses)
  \/ At("loaded") /\ \E recv \in {0, -1}, msg \in Messages, name \in LocalNames :
                       ks_request(recv, msg, name)
  \/ At("accepted") /\ \E sign \in {0, -1}, send \in {0, -1} : ks_sign(sign, send)

SpecKeysign == Init /\ [][KeysignNext]_vars

(***************************************************************************)
(* ssh-add.c: the passphrase cache, the two remove-all requests, the lock  *)
(* passwords and the PKCS#11 PIN.                                          *)
(***************************************************************************)
MaxFiles == 2
MaxTyped == 2
Passphrases == {<<>>, <<"a">>, <<"b", "c">>}

\* memset(p, 0, strlen(p))
Zeroed(p) == [i \in 1..Len(p) |-> "NUL"]

\* free(p) of the block called what, holding bytes
free(A, what, bytes) == [A EXCEPT !.freed = Append(@, [what |-> what, bytes |-> bytes])]

\* one request to the agent with its answer
Request(op, version, r) == [op |-> op, version |-> version, r |-> r]
ask(A, op, version, r) == [A EXCEPT !.reqs = Append(@, Request(op, version, r))]

clear_pass(A) ==
  IF A.pass_set
  THEN [free(A, "pass", Zeroed(A.pass)) EXCEPT !.pass_set = FALSE, !.pass = <<>>]
  ELSE A

\* main: a helper that returned -1 makes the exit status 1
returned(A, fn, r) ==
  [A EXCEPT !.last = fn, !.r = r, !.ret = IF r = -1 THEN 1 ELSE @]

SshAddOnly == UNCHANGED <<running, lev, sess, sessions, rx, sent, kex, ks>>

\* The result that wants both removals to succeed.
delete_all_ret_both(r1, r2) == IF r1 = 0 /\ r2 = 0 THEN 0 ELSE -1

\* ret of delete_all: the protocol 2 answer is ignored
delete_all_ret(r1, r2) == IF r1 = 0 THEN 0 ELSE -1

\* ssh-add -D
delete_all(r1, r2) ==
  /\ sshadd.pc = "start"
  /\ r1 \in {0, -1} /\ r2 \in {0, -1}
  /\ LET A1 == ask(sshadd, "remove_all_identities", 1, r1)
         A2 == ask(A1, "remove_all_identities", 2, r2)
     IN  sshadd' = [returned(A2, "delete_all", delete_all_ret(r1, r2)) EXCEPT !.pc = "done"]
  /\ SshAddOnly

\* ssh-add -s and -e; the prompt may give no PIN at all
update_card(add, given, pin, r) ==
  /\ sshadd.pc = "start"
  /\ add \in {0, 1} /\ given \in BOOLEAN /\ pin \in Passphrases /\ r \in {0, -1}
  /\ ~given => (pin = <<>> /\ r = 0)
  /\ LET A1 == ask(sshadd, IF add = 1 THEN "add_card" ELSE "remove_card", 2, r)
         A2 == free(A1, "pin", pin)
     IN  sshadd' = IF ~given
                   THEN [returned(sshadd, "update_card", -1) EXCEPT !.pc = "done"]
                   ELSE [returned(A2, "update_card", r) EXCEPT !.pc = "done"]
  /\ SshAddOnly

\* ssh-add -x and -X
lock_agent(lock, p1, p2, r) ==
  /\ sshadd.pc = "start"
  /\ lock \in {0, 1} /\ p1 \in Passphrases /\ p2 \in Passphrases /\ r \in {0, -1}
  /\ lock = 0 => p2 = <<>>
  /\ LET passok == lock = 0 \/ p1 = p2
         A1 == IF lock = 1 THEN free(sshadd, "p2", Zeroed(p2)) ELSE sshadd
         A2 == IF passok THEN ask(A1, IF lock = 1 THEN "lock" ELSE "unlock", 2, r) ELSE A1
         A3 == free(A2, "p1", Zeroed(p1))
     IN  sshadd' = [returned(A3, "lock_agent", IF passok /\ r = 0 THEN 0 ELSE -1)
                      EXCEPT !.pc = "done"]
  /\ SshAddOnly

(***************************************************************************)
(* A key file: kp is the passphrase that opens it, and bad_at the parse    *)
(* call, counted from 1, that fails with an error other than a wrong       *)
(* passphrase (0: none does).                                              *)
(***************************************************************************)
KeyFiles == [kp : Passphrases, bad_at : 0..3]
sshkey_parse_private(file, n, pw) ==
  IF file.bad_at = n THEN "error" ELSE IF pw = file.kp THEN "ok" ELSE "wrong"

\* what read_passphrase gives: the next typed line, or "" when there is none
read_passphrase(typed) == IF typed = <<>> THEN <<>> ELSE Head(typed)

\* fail_load:
fail_load(A) == [A |-> clear_pass(A), parsed |-> FALSE]

\* the for (;;) loop of add_file, entered with the cache cleared
RECURSIVE ask_passphrase(_, _, _, _)
ask_passphrase(A, file, n, typed) ==
  LET pw == read_passphrase(typed)
      A1 == [A EXCEPT !.pass_set = TRUE, !.pass = pw]
      r == sshkey_parse_private(file, n, pw)
  IN  IF pw = <<>> THEN fail_load(A1)
      ELSE IF r = "ok" THEN [A |-> A1, parsed |-> TRUE]
      ELSE IF r # "wrong" THEN fail_load(A1)
      ELSE ask_passphrase(clear_pass(A1), file, n + 1, Tail(typed))

\* sshkey_parse_private with "", with the cached passphrase, then the prompt
parse_key(A, file, typed) ==
  LET r0 == sshkey_parse_private(file, 1, <<>>)
      r1 == sshkey_parse_private(file, 2, A.pass)
  IN  IF r0 = "error" THEN fail_load(A)
      ELSE IF r0 = "ok" THEN [A |-> A, parsed |-> TRUE]
      ELSE IF A.pass_set /\ r1 = "error" THEN fail_load(A)
      ELSE IF A.pass_set /\ r1 = "ok" THEN [A |-> A, parsed |-> TRUE]
      ELSE ask_passphrase(clear_pass(A), file, IF A.pass_set THEN 3 ELSE 2, typed)

TypedLines == UNION { [1..n -> Passphrases] : n \in 0..MaxTyped }
CertOutcomes == {"none", "added", "refused"}

\* do_file of one argument when not deleting
add_file(readable, file, typed, r, cert) ==
  /\ sshadd.pc \in {"start", "files"} /\ sshadd.files < MaxFiles
  /\ readable \in BOOLEAN /\ file \in KeyFiles /\ typed \in TypedLines
  /\ r \in {0, -1} /\ cert \in CertOutcomes
  /\ ~readable => (file = [kp |-> <<>>, bad_at |-> 0] /\ typed = <<>> /\ r = 0 /\ cert = "none")
  /\ LET P == parse_key(sshadd, file, typed)
         A1 == ask(P.A, "add_identity", 2, r)
         A2 == IF cert = "none" THEN A1
               ELSE ask(A1, "add_identity", 2, IF cert = "added" THEN 0 ELSE -1)
         A3 == IF ~readable THEN returned(sshadd, "add_file", -1)
               ELSE IF ~P.parsed THEN returned(P.A, "add_file", -1)
               ELSE returned(A2, "add_file", r)
     IN  sshadd' = [A3 EXCEPT !.pc = "files", !.files = @ + 1]
  /\ SshAddOnly

\* main after the last file
main_done ==
  /\ sshadd.pc = "files"
  /\ sshadd' = [clear_pass(sshadd) EXCEPT !.pc = "done", !.last = "main"]
  /\ SshAddOnly

AtAdd(pcs) == sshadd.pc \in pcs

SshAddNext ==
  \/ AtAdd({"start"}) /\ \E r1, r2 \in {0, -1} : delete_all(r1, r2)
  \/ AtAdd({"start"}) /\ \E add \in {0, 1}, given \in BOOLEAN, pin \in Passphrases, r \in {0, -1} :
       update_card(add, given, pin, r)
  \/ AtAdd({"start"}) /\ \E lock \in {0, 1}, p1, p2 \in Passphrases, r \in {0, -1} :
       lock_agent(lock, p1, p2, r)
  \/ AtAdd({"start", "files"}) /\ \E readable \in BOOLEAN, file \in KeyFiles, typed \in TypedLines,
                                     r \in {0, -1}, cert \in CertOutcomes :
       add_file(readable, file, typed, r, cert)
  \/ AtAdd({"files"}) /\ main_done

SpecSshAdd == Init /\ [][SshAddNext]_vars

(***************************************************************************)
(* Vocabulary of the properties.                                           *)
(***************************************************************************)
Frames(q) == [i \in 1..(Len(q) \div FrameLen) |-> <<q[2 * i - 1], q[2 * i]>>]
IsData(f) == f[1] \notin {MSG_KEXINIT, MSG_NEWKEYS, MSG_CORRUPT}
DataFrames(q) == SelectSeq(Frames(q), IsData)
Packets(log) == SelectSeq(log, LAMBDA p : p[1] > 0)
Decoded(S, sd) == Take(S.inlog[sd], Len(S.inlog[sd]) - Len(S.ssh[sd].in))

(***************************************************************************)
(* C1: in a connected session, for each direction, the packets handed to   *)
(* the peer engine by ssh_packet_put are exactly the data packets the      *)
(* sending side's engine has decoded from its input, in arrival order,     *)
(* each once, with type and payload unchanged.                             *)
(***************************************************************************)
C1_ForwardedInOrderOnce ==
  \A s \in Sessions : Connected(s) =>
    \A from \in Sides :
      Packets(sess[s].putlog[OtherSide(from)]) = DataFrames(Decoded(sess[s], from))

C1_Witness ==
  \E s \in Sessions :
    /\ Connected(s)
    /\ Packets(sess[s].putlog["server"]) = << <<MSG_IGNORE, 2>>, <<MSG_IGNORE, 1>> >>

(***************************************************************************)
(* C2: under fair event delivery, once the bytes appended to a side's      *)
(* engine hold k complete data packets, the peer engine is eventually      *)
(* handed k packets or the session is closed: no packet stays in the       *)
(* input buffer for want of further bytes.                                 *)
(***************************************************************************)
C2_AllForwarded ==
  \A s \in Followed, from \in Sides, k \in 1..MaxPkts :
    (Connected(s) /\ Len(DataFrames(sess[s].inlog[from])) >= k)
      ~> (~Connected(s) \/ Len(Packets(sess[s].putlog[OtherSide(from)])) >= k)

C2_Witness ==
  \E s \in Followed :
    /\ Connected(s)
    /\ Len(DataFrames(sess[s].inlog["client"])) = MaxPkts
    /\ Len(Packets(sess[s].putlog["server"])) = MaxPkts
    /\ sess[s].ssh["client"].in = <<>>

(***************************************************************************)
(* C3: the bytes written to a socket, followed by what is still queued in  *)
(* the engine's output buffer, are the engine's outbound byte stream: no   *)
(* byte is skipped, written twice, or written that the engine never        *)
(* queued.                                                                 *)
(***************************************************************************)
C3_WireIsOutputStream ==
  \A s \in Sessions : Connected(s) =>
    \A sd \in Sides :
      sess[s].wire[sd] \o ssh_output_ptr(sess[s].ssh[sd]) = sess[s].outlog[sd]

(***************************************************************************)
(* C4: however often session_close is invoked on a session, each socket    *)
(* is closed at most once, and each engine and the record are freed at     *)
(* most once.                                                              *)
(***************************************************************************)
C4_ReleasedAtMostOnce ==
  \A s \in Sessions :
    /\ Count(sess[s].relLog, Rel("xfree", "session")) <= 1
    /\ \A sd \in Sides :
         /\ Count(sess[s].relLog, Rel("close", sd)) <= 1
         /\ Count(sess[s].relLog, Rel("ssh_free", sd)) <= 1

(***************************************************************************)
(* C5: the release steps of a torn-down connected session come in the      *)
(* order event deregistration, engine release, socket close, unlink.       *)
(***************************************************************************)
Rank(step) ==
  CASE step.op \in {"event_del_input", "event_del_output"} -> 1
    [] step.op = "ssh_free" -> 2
    [] step.op = "close" -> 3
    [] step.op = "unlink" -> 4
    [] OTHER -> 5

C5_ReleaseOrder ==
  \A s \in Sessions :
    LET log == sess[s].relLog
    IN  Has(log, Rel("unlink", "session")) =>
          /\ \A i, j \in 1..Len(log) : i < j => Rank(log[i]) <= Rank(log[j])
          /\ \A sd \in Sides :
               /\ Count(log, Rel("event_del_input", sd)) = 1
               /\ Count(log, Rel("event_del_output", sd)) = 1
               /\ Count(log, Rel("ssh_free", sd)) = 1
               /\ Count(log, Rel("close", sd)) = 1

(***************************************************************************)
(* C6: no step of the event loop ends the process or stops the listener,   *)
(* and a step changes at most one session record.                          *)
(***************************************************************************)
C6_FailuresStayLocal ==
  [][running =>
       /\ running' /\ lev'
       /\ \A s, t \in Sessions :
            (sess'[s] # sess[s] /\ sess'[t] # sess[t]) => s = t]_vars

(***************************************************************************)
(* C7: whenever a read or write event of a connected session is pending,   *)
(* the callback run with a read or write that returns 0, or a negative     *)
(* value with an errno other than EINTR and EAGAIN, leaves the session     *)
(* closed by session_close: record freed, engines gone, no event pending,  *)
(* unlinked, nothing forwarded, and the release is the last thing done.    *)
(***************************************************************************)
IoFailures == { res \in IoErrors : res.len = 0 \/ res.errno \notin {"EINTR", "EAGAIN"} }

ClosedBy(S, T) ==
  /\ T.alloc = "freed"
  /\ T.ssh = BothSides(NullSsh)
  /\ T.evIn = BothSides(FALSE) /\ T.evOut = BothSides(FALSE)
  /\ ~T.next
  /\ T.putlog = BothSides(<<>>)
  /\ Len(T.relLog) > Len(S.relLog)
  /\ T.relLog[Len(T.relLog)] = Rel("xfree", "session")

C7_IoFailureCloses ==
  \A s \in Sessions, sd \in Sides, res \in IoFailures :
    Connected(s) =>
      /\ sess[s].evIn[sd] =>
           LET T == input_cb(sess[s], sd, res, rx[s][sd])
           IN  ClosedBy(sess[s], T) /\ ~InList(TailqUpdate(sessions, s, T), s)
      /\ \A hi \in UninitHigh :
           (sess[s].evOut[sd] /\ SsizePos(Olen(sess[s], sd, hi))) =>
             LET T == output_cb(sess[s], sd, hi, res)
             IN  ClosedBy(sess[s], T) /\ ~InList(TailqUpdate(sessions, s, T), s)

C7_Witness ==
  \E s, t \in Sessions :
    /\ sess[s].alloc = "freed" /\ Has(sess[s].relLog, Rel("unlink", "session"))
    /\ Connected(t)

(***************************************************************************)
(* C8: what ssh_packet_put is given as a packet type is never an engine's  *)
(* error result.                                                           *)
(***************************************************************************)
C8_NoErrorForwarded ==
  \A s \in Sessions, sd \in Sides :
    \A i \in 1..Len(sess[s].putlog[sd]) : sess[s].putlog[sd][i][1] > 0

(***************************************************************************)
(* C9: between callbacks, a side has an engine exactly when its session    *)
(* is connected.                                                           *)
(***************************************************************************)
C9_EngineIffConnected ==
  \A s \in Sessions, sd \in Sides :
    sess[s].ssh[sd].alive <=> (sess[s].alloc = "live" /\ sess[s].connected = 1)

C9_Witness ==
  \E s, t \in Sessions :
    /\ Connected(s) /\ sess[s].ssh["client"].alive /\ sess[s].ssh["server"].alive
    /\ sess[t].alloc = "freed" /\ Has(sess[t].relLog, Rel("ssh_free", "server"))
    /\ ~sess[t].ssh["client"].alive /\ ~sess[t].ssh["server"].alive

C11_CleanupOnEveryExit ==
  kex.r # "none" => kex.leaked \cap Released = {}

(***************************************************************************)
(* C12: whenever the handler can run, a run that decodes the point Q_C     *)
(* and finds it invalid queues exactly one message, the disconnect with    *)
(* reason "invalid client public key", returns an error, and has not       *)
(* allocated kbuf, computed a shared secret or an exchange hash, touched   *)
(* session_id, or signed or sent a reply.                                  *)
(***************************************************************************)
HandlerRuns == kex.dispatch /\ kex.state = "await_init"

Disconnect(text) == [type |-> "DISCONNECT", fields |-> <<text>>]

C12_InvalidPointRejected ==
  HandlerRuns =>
    \A Q_C \in ClientPoints, d \in Scalars, fail \in FailPoints :
      LET T == input_kex_ecdh_init_run(kex, Q_C, d, fail)
      IN  (Has(T.trace, "sshkey_ec_validate_public")
             /\ sshkey_ec_validate_public(Q_C) # 0) =>
            /\ T.msgs = Append(kex.msgs, Disconnect("invalid client public key"))
            /\ T.r = "SSH_ERR_MESSAGE_INCOMPLETE"
            /\ T.state = "aborted"
            /\ \A call \in {"malloc(klen)", "BN_new", "ECDH_compute_key", "BN_bin2bn",
                            "sshkey_to_blob", "kex_ecdh_hash", "sshkey_sign",
                            "sshpkt_start", "sshpkt_send", "kex_derive_keys"} :
                 ~Has(T.trace, call)
            /\ T.hashes = kex.hashes
            /\ T.session_id = kex.session_id
            /\ T.session_id_len = kex.session_id_len

C12_Witness ==
  /\ kex.r = "SSH_ERR_MESSAGE_INCOMPLETE"
  /\ Has(kex.trace, "sshkey_ec_validate_public")
  /\ kex.msgs = <<Disconnect("invalid client public key")>>
  /\ kex.session_id = NoId /\ kex.session_id_len = 0
  /\ kex.hashes = <<>>

(***************************************************************************)
(* C13: whenever the handler can run and the negotiated name maps to no    *)
(* curve, every run returns SSH_ERR_INVALID_ARGUMENT having called only    *)
(* the curve lookup: no key is generated, no loader is called, nothing is  *)
(* read from the packet, no message is queued, and nothing of the kex      *)
(* state but the handler's outcome changes.                                *)
(***************************************************************************)
C13_UnsupportedCurveFailsFirst ==
  (HandlerRuns /\ kex_ecdh_name_to_nid(kex.name) = -1) =>
    \A Q_C \in ClientPoints, d \in Scalars, fail \in FailPoints :
      LET T == input_kex_ecdh_init_run(kex, Q_C, d, fail)
      IN  /\ T.r = "SSH_ERR_INVALID_ARGUMENT"
          /\ T.trace = <<"kex_ecdh_name_to_nid">>
          /\ T.leaked = {}
          /\ T.msgs = kex.msgs
          /\ T.hashes = kex.hashes
          /\ T.session_id = kex.session_id
          /\ T.session_id_len = kex.session_id_len
          /\ T.state = "aborted"

C13_Witness ==
  /\ kex.name = "diffie-hellman-group14-sha1"
  /\ kex.r = "SSH_ERR_INVALID_ARGUMENT"
  /\ kex.trace = <<"kex_ecdh_name_to_nid">>
  /\ kex.msgs = <<>>

(***************************************************************************)
(* C14: the handling of a KEX_ECDH_INIT that is not the first of its key   *)
(* exchange makes no ephemeral key, computes no exchange hash, sends no    *)
(* reply, and ends with the disconnect unexpected_msg.                     *)
(***************************************************************************)
C14_SecondInitRefused ==
  kex.inits > 1 =>
    /\ \A call \in {"EC_KEY_new_by_curve_name", "EC_KEY_generate_key",
                    "kex_ecdh_hash", "sshpkt_send"} : ~Has(kex.trace, call)
    /\ kex.msgs # <<>>
    /\ kex.msgs[Len(kex.msgs)] = Disconnect("unexpected_msg")

(***************************************************************************)
(* C15: the helper accepts a request, signs and writes a response only if  *)
(* the signed data passes every check; a request that fails a check ends   *)
(* in fatal with nothing written; and at the point where the request is    *)
(* read, valid_request accepts a blob exactly when it passes every check.  *)
(***************************************************************************)
IsLocalHost(p) ==
  /\ Len(p) = Len(LocalHost) + 1
  /\ p[Len(p)] = "."
  /\ \A i \in 1..Len(LocalHost) : tolower(p[i]) = tolower(LocalHost[i])

PassesEveryCheck(d) ==
  /\ d.fields = NFields
  /\ d.sidlen \in {20, 32}
  /\ d.type = SSH2_MSG_USERAUTH_REQUEST
  /\ d.service = "ssh-connection"
  /\ d.method = "hostbased"
  /\ d.pkalg \in {"ssh-rsa", "ssh-dss", "ecdsa-sha2-nistp256"}
  /\ d.pkblob # BadBlob
  /\ d.pkblob.type = sshkey_type_from_name(d.pkalg)
  /\ IsLocalHost(d.chost)
  /\ d.luser = ProcessUser
  /\ d.extra = 0

Signed == ks.stdout # <<>> \/ \E i \in 1..Len(ks.trace) : ks.trace[i].op = "sshkey_sign"

C15_SignsOnlyValidRequests ==
  /\ (Signed \/ ks.pc \in {"accepted", "exit0"}) =>
       ks.msg # NoRequest /\ PassesEveryCheck(ks.msg.data)
  /\ (ks.msg # NoRequest /\ ~PassesEveryCheck(ks.msg.data)) =>
       ks.pc = "fatal" /\ ks.stdout = <<>> /\ ~Signed
  /\ At("loaded") =>
       \A d \in SignedData :
         (valid_request(ProcessUser, LocalHost, d).r = "0") <=> PassesEveryCheck(d)

C15_Witness ==
  /\ ks.pc = "exit0" /\ Len(ks.stdout) = 1
  /\ ks.msg.data.sidlen = 32
  /\ ks.msg.data.chost = <<"H", "o", ".">>
  /\ ks.msg.data.pkalg = "ssh-dss"

(***************************************************************************)
(* C16, as stated: every host key is loaded while the process is still     *)
(* privileged, and the request is read only after the privileges are       *)
(* dropped.                                                                *)
(***************************************************************************)
CallsOf(op) == { i \in 1..Len(ks.trace) : ks.trace[i].op = op }

C16_LoadThenDropThenRead ==
  /\ \A i \in CallsOf("sshkey_load_private_pem") :
       ks.trace[i].privileged /\ \A j \in CallsOf("permanently_set_uid") : i < j
  /\ \A i \in CallsOf("ssh_msg_recv") :
       ~ks.trace[i].privileged /\ \A j \in CallsOf("permanently_set_uid") : j < i

(***************************************************************************)
(* C16, amended: the host key files are opened while the process is        *)
(* privileged; the privileges are dropped next; the keys are parsed from   *)
(* the open descriptors, and the request is read, only after that, in      *)
(* this order and without privileges.                                      *)
(***************************************************************************)
C16_OpenThenDropThenLoadThenRead ==
  /\ \A i \in CallsOf("open(host key file)") :
       ks.trace[i].privileged /\ \A j \in CallsOf("permanently_set_uid") : i < j
  /\ \A i \in CallsOf("sshkey_load_private_pem") :
       /\ ~ks.trace[i].privileged
       /\ \A j \in CallsOf("permanently_set_uid") : j < i
       /\ \A j \in CallsOf("ssh_msg_recv") : i < j
  /\ \A i \in CallsOf("ssh_msg_recv") :
       ~ks.trace[i].privileged /\ \A j \in CallsOf("permanently_set_uid") : j < i
  /\ (CallsOf("sshkey_load_private_pem") # {} \/ CallsOf("ssh_msg_recv") # {}) =>
       CallsOf("permanently_set_uid") # {} /\ ~ks.privileged

C16_Witness ==
  /\ ks.msg # NoRequest
  /\ CallsOf("open(host key file)") = {1, 2, 3}
  /\ CallsOf("permanently_set_uid") = {4}
  /\ CallsOf("sshkey_load_private_pem") = {6, 7}
  /\ CallsOf("ssh_msg_recv") = {8}

(***************************************************************************)
(* C17: once the configuration has been read and does not enable the       *)
(* helper, the process has ended in fatal: no host key has been parsed,    *)
(* no request read, nothing signed and nothing written.                    *)
(***************************************************************************)
ConfigRead == CallsOf("read_config_file") # {}

C17_DisabledRefusesToRun ==
  (ConfigRead /\ ks.enable_ssh_keysign # 1) =>
    /\ ks.pc = "fatal" /\ ks.fatal = "ssh-keysign not enabled"
    /\ CallsOf("sshkey_load_private_pem") = {}
    /\ \A i \in KeyIdx : ks.keys[i] = NoKey
    /\ CallsOf("ssh_msg_recv") = {} /\ ks.msg = NoRequest
    /\ ~Signed /\ ks.stdout = <<>>

C17_Witness ==
  /\ ConfigRead /\ ks.enable_ssh_keysign = 0
  /\ ks.pc = "fatal"
  /\ \A i \in KeyIdx : ks.key_fd[i] # -1

(***************************************************************************)
(* C18: what the helper writes is one message, version 2 with a signature  *)
(* over the whole signed data of the request made by a loaded host key     *)
(* whose public part is the key embedded in the request; and a request     *)
(* accepted while no loaded key is the embedded key ends in fatal with     *)
(* nothing written.                                                        *)
(***************************************************************************)
Loaded == { ks.keys[i] : i \in KeyIdx } \ {NoKey}

C18_SignedByMatchingHostKey ==
  /\ ks.stdout # <<>> =>
       /\ Len(ks.stdout) = 1
       /\ ks.stdout[1].version = 2
       /\ ks.stdout[1].signature.over = ks.msg.data
       /\ ks.stdout[1].signature.by \in Loaded
       /\ ks.stdout[1].signature.by = ks.msg.data.pkblob
  /\ ks.pc = "exit0" => ks.stdout # <<>>
  /\ (ks.msg # NoRequest /\ ~At("accepted") /\ ks.msg.data.pkblob \notin Loaded) =>
       ks.pc = "fatal" /\ ks.stdout = <<>> /\ ~Signed
  /\ (At("accepted") /\ ks.key \notin Loaded) => matching_hostkey(ks) = 0

C18_Witness ==
  /\ ks.pc = "exit0"
  /\ Loaded = {HostKey(1), HostKey(3)}
  /\ ks.msg.data.pkblob = HostKey(3)
  /\ ks.stdout = <<[version |-> 2, signature |-> [by |-> HostKey(3), over |-> ks.msg.data]]>>

(***************************************************************************)
(* C19: between callbacks, in every connected session each side whose      *)
(* engine has output queued has its write event pending.                   *)
(***************************************************************************)
C19_OutputImpliesWritable ==
  \A s \in Sessions : Connected(s) =>
    \A sd \in Sides :
      ssh_output_ptr(sess[s].ssh[sd]) # <<>> => sess[s].evOut[sd]

C19_Witness ==
  \E s \in Sessions :
    /\ Connected(s)
    /\ sess[s].wire["server"] # <<>> /\ Len(sess[s].wire["server"]) % FrameLen # 0
    /\ ssh_output_ptr(sess[s].ssh["server"]) # <<>> /\ sess[s].evOut["server"]
    /\ ssh_output_ptr(sess[s].ssh["client"]) # <<>> /\ sess[s].evOut["client"]
    /\ sess[s].putlog["client"] = <<>>

(***************************************************************************)
(* C20: whenever a read or write event of a connected session is pending,  *)
(* the callback run with a read or write that fails with EINTR or EAGAIN   *)
(* leaves the session open and its event pending again; the read appends   *)
(* nothing to the side's input and takes nothing from the socket, and the  *)
(* write consumes nothing of the side's output and puts nothing on the     *)
(* wire.                                                                   *)
(***************************************************************************)
Retries == { [len |-> -1, errno |-> e] : e \in {"EINTR", "EAGAIN"} }

IsSuffix(a, b) == Len(a) <= Len(b) /\ a = Drop(b, Len(b) - Len(a))
IsPrefix(a, b) == Len(a) <= Len(b) /\ a = Take(b, Len(a))

C20_RetryLeavesBuffers ==
  \A s \in Sessions, sd \in Sides, res \in Retries :
    Connected(s) =>
      /\ sess[s].evIn[sd] =>
           LET T == input_cb(sess[s], sd, res, rx[s][sd])
           IN  /\ T.alloc = "live" /\ T.connected = 1 /\ T.relLog = sess[s].relLog
               /\ T.ssh[sd].alive /\ T.evIn[sd]
               /\ T.inlog = sess[s].inlog
               /\ IsSuffix(T.ssh[sd].in, sess[s].ssh[sd].in)
      /\ \A hi \in UninitHigh :
           (sess[s].evOut[sd] /\ SsizePos(Olen(sess[s], sd, hi))) =>
             LET T == output_cb(sess[s], sd, hi, res)
             IN  /\ T.alloc = "live" /\ T.connected = 1 /\ T.relLog = sess[s].relLog
                 /\ T.ssh[sd].alive /\ T.evOut[sd]
                 /\ T.wire = sess[s].wire
                 /\ IsPrefix(ssh_output_ptr(sess[s].ssh[sd]), ssh_output_ptr(T.ssh[sd]))

C20_Witness ==
  \E s \in Sessions, sd \in Sides, res \in Retries :
    /\ Connected(s)
    /\ sess[s].evIn[sd] /\ sess[s].ssh[sd].in # <<>>
    /\ input_cb(sess[s], sd, res, rx[s][sd]).putlog # sess[s].putlog
    /\ sess[s].evOut[OtherSide(sd)] /\ ssh_output_ptr(sess[s].ssh[OtherSide(sd)]) # <<>>
    /\ output_cb(sess[s], OtherSide(sd), 0, res).putlog # sess[s].putlog

(***************************************************************************)
(* C21: a step that frees a session whose connect was in progress has      *)
(* closed the backend socket and the client socket once each and freed     *)
(* the record once; a step that frees a session in accept_cb has closed    *)
(* the client socket, the only one it holds, once and freed the record     *)
(* once; and such a session was given no engine, no read event and no      *)
(* place in the session list.                                              *)
(***************************************************************************)
NeverConnected(S) ==
  /\ S.connected = 0
  /\ S.ssh = BothSides(NullSsh)
  /\ S.evIn = BothSides(FALSE)
  /\ ~S.next
  /\ \A i \in 1..Len(S.relLog) :
       S.relLog[i].op \in {"close", "xfree"}

C21_FailedConnectTornDown ==
  [][\A s \in Sessions :
       /\ (sess[s].alloc = "live" /\ sess[s].connected = 0 /\ sess'[s].alloc = "freed") =>
            /\ sess'[s].relLog =
                 <<Rel("close", "server"), Rel("close", "client"), Rel("xfree", "session")>>
            /\ NeverConnected(sess'[s])
            /\ ~InList(sessions, s) /\ ~InList(sessions', s)
       /\ (sess[s].alloc = "none" /\ sess'[s].alloc = "freed") =>
            /\ sess'[s].relLog = <<Rel("close", "client"), Rel("xfree", "session")>>
            /\ sess'[s].fd["server"] = -1
            /\ NeverConnected(sess'[s])
            /\ ~InList(sessions', s)]_vars

C21_Witness ==
  \E s, u \in Sessions :
    /\ sess[s].alloc = "freed"
    /\ sess[s].relLog =
         <<Rel("close", "server"), Rel("close", "client"), Rel("xfree", "session")>>
    /\ sess[u].alloc = "freed"
    /\ sess[u].relLog = <<Rel("close", "client"), Rel("xfree", "session")>>
    /\ sessions = <<>>

(***************************************************************************)
(* C22: in the calls of one run of the handler, each of the hash, the      *)
(* binding of session_id, the signing, the sending of the reply, the key   *)
(* derivation and kex_finish occurs at most once and in this order, none   *)
(* without the ones before it (the binding apart, made only when           *)
(* session_id is unset); the keys are derived only in a run whose reply    *)
(* was sent, and that reply carries K_S, Q_S and the signature of H in     *)
(* this order.                                                             *)
(***************************************************************************)
Pos(q, x) == IF Has(q, x) THEN CHOOSE i \in 1..Len(q) : q[i] = x ELSE 0

StepOrder ==
  <<"kex_ecdh_hash", "memcpy(session_id)", "sshkey_sign", "sshpkt_send",
    "kex_derive_keys", "kex_finish">>

C22_StepsInOrder ==
  LET tr == kex.trace
      n == Len(kex.msgs)
  IN  /\ \A k \in 1..Len(StepOrder) : Count(tr, StepOrder[k]) <= 1
      /\ \A j, k \in 1..Len(StepOrder) :
           (j < k /\ Has(tr, StepOrder[j]) /\ Has(tr, StepOrder[k])) =>
             Pos(tr, StepOrder[j]) < Pos(tr, StepOrder[k])
      /\ \A k \in 2..Len(StepOrder) :
           (Has(tr, StepOrder[k]) /\ k # 3) => Has(tr, StepOrder[IF k = 2 THEN 1 ELSE k - 1])
      /\ Has(tr, "sshkey_sign") => Has(tr, "kex_ecdh_hash")
      /\ Has(tr, "kex_derive_keys") =>
           /\ kex.r = "0" /\ Has(tr, "kex_finish")
           /\ n >= 2
           /\ kex.msgs[n].type = "NEWKEYS"
           /\ kex.msgs[n - 1].type = "KEX_ECDH_REPLY"
           /\ LET f == kex.msgs[n - 1].fields
                  H == kex.hashes[Len(kex.hashes)].h
              IN  /\ Len(f) = 3
                  /\ f[1] = "server_host_key_blob"
                  /\ f[2] = H[3]
                  /\ f[3] = <<"signature", H>>
      /\ kex.r = "SSH_ERR_CONN_CLOSED" =>
           /\ Has(tr, "sshpkt_send")
           /\ ~Has(tr, "kex_derive_keys") /\ ~Has(tr, "kex_finish")
           /\ (n > 0 => kex.msgs[n].type # "KEX_ECDH_REPLY")

C22_Witness ==
  /\ kex.r = "0" /\ kex.exchanges = 1
  /\ Pos(kex.trace, "kex_ecdh_hash") > 0
  /\ Pos(kex.trace, "memcpy(session_id)") > Pos(kex.trace, "kex_ecdh_hash")
  /\ Pos(kex.trace, "kex_finish") = Pos(kex.trace, "kex_derive_keys") + 1
  /\ Len(kex.msgs) = 2

(***************************************************************************)
(* C23, as stated: whenever the handler can run with a supported curve     *)
(* and a host key missing, because a loader returns no key or because a    *)
(* loader was not provided, every run that gets past the key generation    *)
(* returns SSH_ERR_KEY_TYPE_MISMATCH and sends nothing.                    *)
(***************************************************************************)
KeygenFails == {"EC_KEY_new_by_curve_name", "EC_KEY_generate_key"}

HostKeyMissing ==
  /\ HandlerRuns /\ kex_ecdh_name_to_nid(kex.name) # -1
  /\ kex.load_host_public_key # "key" \/ kex.load_host_private_key # "key"

C23_MissingKeyIsMismatch ==
  HostKeyMissing =>
    \A Q_C \in ClientPoints, d \in Scalars, fail \in FailPoints \ KeygenFails :
      LET T == input_kex_ecdh_init_run(kex, Q_C, d, fail)
      IN  T.r = "SSH_ERR_KEY_TYPE_MISMATCH" /\ T.msgs = kex.msgs

(***************************************************************************)
(* C23, amended: such a run returns SSH_ERR_INVALID_ARGUMENT, without      *)
(* calling a loader, when a loader was not provided, and otherwise         *)
(* SSH_ERR_KEY_TYPE_MISMATCH when a loader returns no key; either way it   *)
(* reads nothing from the packet, computes no hash and sends nothing.      *)
(***************************************************************************)
C23_MissingKeyOrLoader ==
  HostKeyMissing =>
    \A Q_C \in ClientPoints, d \in Scalars, fail \in FailPoints \ KeygenFails :
      LET T == input_kex_ecdh_init_run(kex, Q_C, d, fail)
          unset == kex.load_host_public_key = "NULL" \/ kex.load_host_private_key = "NULL"
      IN  /\ T.r = IF unset THEN "SSH_ERR_INVALID_ARGUMENT" ELSE "SSH_ERR_KEY_TYPE_MISMATCH"
          /\ unset => ~Has(T.trace, "load_host_public_key")
          /\ ~unset => Has(T.trace, "load_host_public_key")
          /\ Has(T.trace, "load_host_private_key") <=>
               (~unset /\ kex.load_host_public_key = "key")
          /\ ~Has(T.trace, "sshpkt_get_ec") /\ ~Has(T.trace, "kex_ecdh_hash")
          /\ T.msgs = kex.msgs /\ T.hashes = kex.hashes
          /\ T.session_id = kex.session_id
          /\ T.state = "aborted"

C23_Witness ==
  /\ kex_ecdh_name_to_nid(kex.name) # -1
  /\ kex.load_host_public_key = "key" /\ kex.load_host_private_key = "NULL"
  /\ kex.r = "SSH_ERR_INVALID_ARGUMENT"
  /\ Has(kex.trace, "EC_KEY_generate_key")
  /\ kex.msgs = <<>>

(***************************************************************************)
(* C24, as stated: whenever the handler can run with a supported curve,    *)
(* a run on a packet whose point decodes and is invalid never calls the    *)
(* host private key loader and ends with the disconnect "invalid client    *)
(* public key", whether or not host keys are available.                    *)
(***************************************************************************)
DecodeFails == {"EC_POINT_new", "sshpkt_get_ec", "sshpkt_get_end"}
InvalidPoints == { Q \in ClientPoints : sshkey_ec_validate_public(Q) # 0 }

C24_ValidatedBeforeHostKeys ==
  (HandlerRuns /\ kex_ecdh_name_to_nid(kex.name) # -1) =>
    \A Q_C \in InvalidPoints, d \in Scalars,
       fail \in FailPoints \ (KeygenFails \cup DecodeFails) :
      LET T == input_kex_ecdh_init_run(kex, Q_C, d, fail)
      IN  /\ ~Has(T.trace, "load_host_private_key")
          /\ T.msgs = Append(kex.msgs, Disconnect("invalid client public key"))

(***************************************************************************)
(* C24, amended: in every run the host key loaders are called before the   *)
(* point is read from the packet, validated and used; for a packet with    *)
(* an invalid point the run ends with the disconnect "invalid client       *)
(* public key" exactly when both loaders are provided and return a key,    *)
(* and otherwise with the error of the missing key or loader and no        *)
(* disconnect, the point not having been read.                             *)
(***************************************************************************)
Before(q, a, b) == (Has(q, a) /\ Has(q, b)) => Pos(q, a) < Pos(q, b)

C24_HostKeysBeforeValidation ==
  (HandlerRuns /\ kex_ecdh_name_to_nid(kex.name) # -1) =>
    \A Q_C \in ClientPoints, d \in Scalars, fail \in FailPoints \ KeygenFails :
      LET T == input_kex_ecdh_init_run(kex, Q_C, d, fail)
          keys == kex.load_host_public_key = "key" /\ kex.load_host_private_key = "key"
      IN  /\ Has(T.trace, "sshpkt_get_ec") =>
               /\ Has(T.trace, "load_host_public_key")
               /\ Has(T.trace, "load_host_private_key")
          /\ Before(T.trace, "load_host_public_key", "load_host_private_key")
          /\ Before(T.trace, "load_host_private_key", "sshpkt_get_ec")
          /\ Before(T.trace, "sshpkt_get_ec", "sshkey_ec_validate_public")
          /\ Before(T.trace, "sshkey_ec_validate_public", "ECDH_compute_key")
          /\ ~keys =>
               /\ T.r \in {"SSH_ERR_INVALID_ARGUMENT", "SSH_ERR_KEY_TYPE_MISMATCH"}
               /\ T.msgs = kex.msgs
               /\ ~Has(T.trace, "sshpkt_get_ec")
               /\ ~Has(T.trace, "sshkey_ec_validate_public")
          /\ (keys /\ Q_C \in InvalidPoints /\ fail \notin DecodeFails) =>
               /\ T.msgs = Append(kex.msgs, Disconnect("invalid client public key"))
               /\ Has(T.trace, "load_host_private_key")

C24_Witness ==
  /\ kex.r = "SSH_ERR_KEY_TYPE_MISMATCH"
  /\ kex.load_host_public_key = "key" /\ kex.load_host_private_key = "nokey"
  /\ Has(kex.trace, "load_host_private_key")
  /\ ~Has(kex.trace, "sshpkt_get_ec")
  /\ kex.msgs = <<>>

(***************************************************************************)
(* C25: where the request is read, the client host name test passes a      *)
(* string exactly when it is the local host name, letters compared         *)
(* without regard to case, followed by one "."; so it fails the empty      *)
(* string, the name without the dot and the name followed by another       *)
(* character.  Checked for every local name of up to MaxNameLen            *)
(* characters and every string of up to one character more.                *)
(***************************************************************************)
MaxNameLen == 2
NameChars == {"h", "H", "o", "x", "."}
Strings(n) == UNION { [1..k -> NameChars] : k \in 0..n }

IsNameDot(host, p) ==
  /\ Len(p) = Len(host) + 1
  /\ p[Len(p)] = "."
  /\ \A i \in 1..Len(host) : tolower(p[i]) = tolower(host[i])

C25_ChostIsLocalNameDot ==
  At("loaded") =>
    \A host \in Strings(MaxNameLen) \ {<<>>}, p \in Strings(MaxNameLen + 1) :
      /\ (chost_fail(host, p) = 0) <=> IsNameDot(host, p)
      /\ chost_fail(host, <<>>) = 1
      /\ chost_fail(host, host) = 1
      /\ chost_fail(host, Append(host, "x")) = 1
      /\ chost_fail(host, Append(host, ".")) = 0

C25_Witness ==
  /\ ks.pc = "fatal" /\ ks.fatal = "not a valid request"
  /\ ks.msg.data = [GoodData EXCEPT !.chost = <<>>]

(***************************************************************************)
(* C26: a request whose version byte is not 2, whose fd_index read as an   *)
(* int is negative or is standard input or standard output, or for whose   *)
(* descriptor no local name is found, has ended in fatal with the          *)
(* matching text, valid_request never called, no key taken from the        *)
(* request and nothing signed or written, whatever its signed data.        *)
(***************************************************************************)
HeaderRefused ==
  /\ ks.msg # NoRequest
  /\ \/ ks.msg.rver # 2
     \/ ks.msg.fd.top = 1
     \/ ks.msg.fd = U32(0, STDIN_FILENO)
     \/ ks.msg.fd = U32(0, STDOUT_FILENO)
     \/ ks.host = "NULL"

C26_HeaderCheckedFirst ==
  /\ HeaderRefused =>
       /\ ks.pc = "fatal"
       /\ ks.fatal = IF ks.msg.rver # 2 THEN "bad version"
                     ELSE IF ks.host = "NULL" THEN "cannot get local name for fd"
                     ELSE "bad fd"
       /\ CallsOf("valid_request") = {}
       /\ ks.key = NoKey /\ ~Signed /\ ks.stdout = <<>>
  /\ \A i \in CallsOf("valid_request") :
       /\ \A j \in CallsOf("get_local_name") : j < i
       /\ ks.msg.rver = 2 /\ as_int(ks.msg.fd) > STDOUT_FILENO /\ ks.host = "name"

C26_Witness ==
  /\ ks.pc = "fatal" /\ ks.fatal = "bad fd"
  /\ ks.msg.rver = 2 /\ ks.msg.fd = U32(1, 3)
  /\ ks.msg.data.service = "foo"

(***************************************************************************)
(* C27: delete_all has asked the agent to remove all protocol 1            *)
(* identities and then all protocol 2 identities, both always, and its     *)
(* result is 0 exactly when the protocol 1 request succeeded, whatever the *)
(* protocol 2 request did; main exits with 1 exactly when it returned -1.  *)
(***************************************************************************)
C27_DeleteAllFollowsProtocol1 ==
  sshadd.last = "delete_all" =>
    /\ Len(sshadd.reqs) = 2
    /\ sshadd.reqs[1].op = "remove_all_identities" /\ sshadd.reqs[1].version = 1
    /\ sshadd.reqs[2].op = "remove_all_identities" /\ sshadd.reqs[2].version = 2
    /\ sshadd.r = (IF sshadd.reqs[1].r = 0 THEN 0 ELSE -1)
    /\ sshadd.ret = (IF sshadd.reqs[1].r = 0 THEN 0 ELSE 1)

C27_Witness ==
  /\ sshadd.last = "delete_all"
  /\ sshadd.reqs[1].r = 0 /\ sshadd.reqs[2].r = -1
  /\ sshadd.r = 0

(***************************************************************************)
(* C28: every block that held a passphrase, a lock password or a PIN holds *)
(* only zero bytes when it is given to free.                               *)
(***************************************************************************)
C28_SecretsZeroedBeforeFree ==
  \A i \in 1..Len(sshadd.freed) : sshadd.freed[i].bytes = Zeroed(sshadd.freed[i].bytes)

(***************************************************************************)
(* C29: a read event is taken off the pending set when it is delivered,    *)
(* and between callbacks the read events of both sides of every connected  *)
(* open session are pending; a callback that ran on a connected session    *)
(* and left it open left both pending.                                     *)
(***************************************************************************)
BothReadable(S) == S.evIn["client"] /\ S.evIn["server"]

C29_ReadEventsRearmed ==
  \A s \in Sessions : Connected(s) => BothReadable(sess[s])

C29_Witness ==
  \E s \in Sessions :
    /\ Connected(s) /\ BothReadable(sess[s])
    /\ sess[s].inlog["client"] # <<>>
    /\ sess[s].inlog["server"] # <<>>

(***************************************************************************)
(* C30: whenever the ECDH handshake has installed a session id, a          *)
(* host-based request that is right in every other field and carries a     *)
(* session id of that length is accepted by valid_request, for each of the *)
(* three curve names.                                                      *)
(***************************************************************************)
C30_SessionIdAcceptedByKeysign ==
  kex.session_id # NoId =>
    valid_request(ProcessUser, LocalHost,
                  [GoodData EXCEPT !.sidlen = kex.session_id_len]).r = "0"

RepliesSent(K) == Len(SelectSeq(K.msgs, LAMBDA m : m.type = "KEX_ECDH_REPLY"))
HandlerRan == kex.state = "await_init" /\ kex'.inits = kex.inits + 1
ReplySentInRun == RepliesSent(kex') = RepliesSent(kex) + 1
HashComputedInRun == Len(kex'.hashes) = Len(kex.hashes) + 1
Returned == kex'.state \in {"done", "aborted"}

\* The part about the result and the reply alone: it holds of every run.
ReturnTellsReply ==
  [][HandlerRan =>
       /\ kex'.r = "0" <=> ReplySentInRun
       /\ kex'.r # "0" =>
            /\ RepliesSent(kex') = RepliesSent(kex)
            /\ ~Has(kex'.trace, "kex_derive_keys")]_vars

(***************************************************************************)
(* C31: a run of the ECDH server handler returns 0 exactly when it sent    *)
(* KEX_ECDH_REPLY; a run that did not return 0 sent no reply and derived   *)
(* no keys; and a run that computed H and returned a result other than 0   *)
(* leaves session_id as it was when the run began.                         *)
(***************************************************************************)
C31_ZeroIffReplyAndAbortKeepsSessionId ==
  [][HandlerRan =>
       /\ kex'.r = "0" <=> ReplySentInRun
       /\ kex'.r # "0" =>
            /\ RepliesSent(kex') = RepliesSent(kex)
            /\ ~Has(kex'.trace, "kex_derive_keys")
       /\ (Returned /\ kex'.r # "0" /\ HashComputedInRun) =>
            kex'.session_id = kex.session_id]_vars

============================================================================
